---- MODULE Spec2Model ----
(***************************************************************************)
(* SocketManager of the pusher (play/src/pusher/services/SocketManager.ts) *)
(* as a state machine.  One action per handler or per segment of an async  *)
(* handler between two awaits.  Awaits of external calls (getClient,       *)
(* getSpaceClient, room.init, the admin service) are suspension points of  *)
(* arbitrary duration.  An await of a promise that is already fulfilled,   *)
(* and the reactions of a promise that becomes fulfilled, run as           *)
(* microtasks: no event of the event loop comes between them, so they are  *)
(* part of the action that triggers them, in registration order.           *)
(***************************************************************************)
EXTENDS Integers, Sequences, FiniteSets, TLC

\* ------------------------------------------------------------------ bounds
\* Data frames delivered by the back on the room stream of a client.
MaxRoomFrames == 2
\* Client messages other than join/leave (viewport, queries), over all clients.
MaxClientMsgs == 2
\* handleJoinSpace calls, over all clients.
MaxJoinSpace == 2
\* pingMessages delivered on space streams, over all streams.
MaxPings == 2
\* updateSpaceMetadataMessages delivered on one space stream.
MaxMetadataFrames == 2

\* ------------------------------------------------------------- the universe
Clients == {"c1", "c2", "c3"}
RoomUrls == {"r1", "r2"}
\* socketData.tags, fixed at upgrade: c1 is an admin.
tags == [c \in Clients |-> IF c = "c1" THEN {"admin"} ELSE {}]
\* The content and type of a PlayGlobalMessage.
Contents == {"hello", "bye"}
Types == {"message"}
\* The room URLs adminService.getUrlRoomsFromSameWorld may return, in order.
WorldRooms == {<<>>, <<"r1">>, <<"r1", "r2">>, <<"r2", "r1">>}
\* socketData.roomId, fixed at upgrade.
roomId == [c \in Clients |-> IF c = "c3" THEN "r2" ELSE "r1"]
Viewports == {"v1", "v2"}
\* The values of availabilityStatus (0 is the unset value) and of chatID
\* ("" is the unset value) in a SpaceUser or a SetPlayerDetailsMessage.
AvailabilityStatuses == {0, 1, 2}
ChatIDs == {"", "old", "new"}
\* The $case of a frame read from a room back-stream; "empty" is a frame
\* without message.
RoomFrames == {"empty", "roomJoinedMessage", "refreshRoomMessage", "other"}
SpaceNames == {"s1", "s2", "s3"}
BackIds == {1, 2}
\* apiClientRepository.getIndex(spaceName): a stable function of the name.
getIndex == [n \in SpaceNames |-> IF n = "s3" THEN 2 ELSE 1]
\* Close code used when the back connection is lost.
CloseCode == 1011

VARIABLES
    \* ---- rooms
    rooms,            \* this.rooms: roomUrl -> PusherRoom (0: no entry)
    roomObjs,         \* every PusherRoom ever constructed, by identity
    pcJoin,           \* position of the client's handleJoinRoom call
    joinLocal,        \* locals of that call: viewport (l.226), room (l.805)
    backConnection,   \* socketData.backConnection: "undefined", "open", "ended"
    streamEvents,     \* "error" and "end" events the room stream has emitted, in order
    backWritten,      \* frames written on the client's room stream
    disconnecting,    \* socketData.disconnecting
    wsEnd,            \* codes passed to client.end()
    sent,             \* frames passed to client.send()
    userId,           \* socketData.userId and spaceUser.id (0: not set)
    viewport,         \* socketData.viewport
    gauge,            \* nbClientPerRoomGauge, moved by emitClientJoin/Leave
    pcTags,           \* position of the client's handleRoomTagsQuery call
    leftRoom,         \* leaveRoom has been called for the client
    received,         \* frames read from the client's room stream, in order
    nMsgs,            \* client messages handled so far
    \* ---- spaces
    spaces,           \* this.spaces: name -> Space (0: no entry)
    spaceObjs,        \* every Space ever constructed, by identity
    spaceStreamsToBack, \* this.spaceStreamsToBack: backId -> promise (0: no entry)
    conns,            \* every stream promise ever created, by identity
    clientSpaces,     \* socketData.spaces: list of Space identities
    spacesFilters,    \* socketData.spacesFilters: space name -> list of filters
    leftSpaces,       \* leaveSpaces has been called for the client
    nJoinSpace,       \* handleJoinSpace calls so far
    nPings,           \* pingMessages delivered so far
    \* ---- calls made by the handlers
    spaceUser,        \* socketData.spaceUser: availabilityStatus and chatID
    calls,            \* calls made on spaces, and errors thrown
    \* ---- admin operations
    pcAdmin,          \* positions and locals of the client's handleBanPlayerMessage
                      \* and emitPlayGlobalMessage calls
    adminCalls        \* calls made on the admin service and the back, and errors

roomVars == <<rooms, roomObjs, pcJoin, joinLocal, backConnection, streamEvents,
              backWritten, disconnecting, wsEnd, sent, userId, viewport, gauge,
              pcTags, leftRoom, received, nMsgs>>
spaceVars == <<spaces, spaceObjs, spaceStreamsToBack, conns, clientSpaces,
               spacesFilters, leftSpaces, nJoinSpace, nPings>>
adminVars == <<pcAdmin, adminCalls>>
callVars == <<spaceUser, calls, adminVars>>
vars == <<roomVars, spaceVars, callVars>>

NoRoom == 0
NoSpace == 0
NoStream == 0
\* new Map<string, SpaceFilterMessage[]>()
\* No admin operation of the client is running.  Of emitPlayGlobalMessage:
\* global is its position, msg its message, tabUrlRooms the list it loops
\* over, next the index of the loop, from the length of adminCalls when it
\* was called.  ban is the position of handleBanPlayerMessage.
NoAdminOp ==
    [ban |-> "idle", global |-> "idle",
     msg |-> [broadcastToWorld |-> FALSE, content |-> "", type |-> ""],
     tabUrlRooms |-> <<>>, next |-> 1, from |-> 0]
NoFilters == [n \in SpaceNames |-> [has |-> FALSE, list |-> <<>>]]

Init ==
    /\ rooms = [r \in RoomUrls |-> NoRoom]
    /\ roomObjs = <<>>
    /\ pcJoin = [c \in Clients |-> "idle"]
    /\ joinLocal = [c \in Clients |-> [viewport |-> "v1", room |-> NoRoom]]
    /\ backConnection = [c \in Clients |-> "undefined"]
    /\ streamEvents = [c \in Clients |-> <<>>]
    /\ backWritten = [c \in Clients |-> <<>>]
    /\ disconnecting = [c \in Clients |-> FALSE]
    /\ wsEnd = [c \in Clients |-> <<>>]
    /\ sent = [c \in Clients |-> <<>>]
    /\ userId = [c \in Clients |-> 0]
    /\ viewport = [c \in Clients |-> "v1"]
    /\ gauge = [r \in RoomUrls |-> 0]
    /\ pcTags = [c \in Clients |-> "idle"]
    /\ leftRoom = [c \in Clients |-> FALSE]
    /\ received = [c \in Clients |-> <<>>]
    /\ nMsgs = 0
    /\ spaces = [n \in SpaceNames |-> 0]
    /\ spaceObjs = <<>>
    /\ spaceStreamsToBack = [b \in BackIds |-> 0]
    /\ conns = <<>>
    /\ clientSpaces = [c \in Clients |-> <<>>]
    /\ spacesFilters = [c \in Clients |-> NoFilters]
    /\ leftSpaces = [c \in Clients |-> FALSE]
    /\ nJoinSpace = 0
    /\ nPings = 0
    /\ spaceUser = [c \in Clients |-> [availabilityStatus |-> 1, chatID |-> "old"]]
    /\ calls = <<>>
    /\ pcAdmin = [c \in Clients |-> NoAdminOp]
    /\ adminCalls = <<>>

\* ===================================================================== rooms

\* new PusherRoom(roomUrl, this)
NewRoom(url) ==
    [roomUrl |-> url, clients |-> {}, closed |-> FALSE, versionNumber |-> 0,
     viewports |-> [c \in Clients |-> "none"]]

RoomJoin_everyRoomOfUrl(objs, rid, c) ==
    [i \in DOMAIN objs |->
        IF objs[i].roomUrl = objs[rid].roomUrl
        THEN [objs[i] EXCEPT !.clients = @ \cup {c}]
        ELSE objs[i]]

\* PusherRoom.join(client): add to clients; idempotent.
RoomJoin(objs, rid, c) ==
    [objs EXCEPT ![rid].clients = @ \cup {c}]

\* PusherRoom.leave(client): remove; no error if absent.
RoomLeave(objs, rid, c) ==
    [objs EXCEPT ![rid].clients = @ \ {c}]

\* PusherRoom.setViewport(client, viewport): update the spatial index.
RoomSetViewport(objs, rid, c, v) ==
    [objs EXCEPT ![rid].viewports[c] = v]

\* PusherRoom.needsUpdate(version): versionNumber := version when larger.
RoomNeedsUpdate(objs, rid, version) ==
    IF version > objs[rid].versionNumber
    THEN [objs EXCEPT ![rid].versionNumber = version]
    ELSE objs

deleteRoomIfEmpty_keeps(rs, objs, rid) ==
    [rooms |-> rs, objs |-> objs]

\* deleteRoomIfEmpty(room): close and unregister the room when it is empty.
deleteRoomIfEmpty(rs, objs, rid) ==
    IF objs[rid].clients = {}
    THEN [rooms |-> [rs EXCEPT ![objs[rid].roomUrl] = NoRoom],
          objs  |-> [objs EXCEPT ![rid].closed = TRUE]]
    ELSE [rooms |-> rs, objs |-> objs]

closeWebsocketConnection_noflag(c, code) ==
    [disconnecting |-> disconnecting,
     wsEnd |-> [wsEnd EXCEPT ![c] = Append(@, code)]]

\* closeWebsocketConnection(client, code, reason)
closeWebsocketConnection(c, code) ==
    [disconnecting |-> [disconnecting EXCEPT ![c] = TRUE],
     wsEnd |-> [wsEnd EXCEPT ![c] = Append(@, code)]]

\* handleViewport(client, viewport): the new socketData.viewport and rooms.
handleViewport(objs, c, v) ==
    [viewport |-> [viewport EXCEPT ![c] = v],
     objs |-> IF rooms[roomId[c]] = NoRoom
              THEN objs
              ELSE RoomSetViewport(objs, rooms[roomId[c]], c, v)]

\* refreshRoomData(roomId, versionNumber)
refreshRoomData(objs, url, version) ==
    IF rooms[url] = NoRoom THEN objs
    ELSE RoomNeedsUpdate(objs, rooms[url], version)

leaveRoom_keepsStreamWithoutRoom(c) ==
    LET rid == rooms[roomId[c]]
        left == IF rid = NoRoom
                THEN [rooms |-> rooms, objs |-> roomObjs]
                ELSE deleteRoomIfEmpty(rooms, RoomLeave(roomObjs, rid, c), rid)
    IN  [rooms |-> left.rooms,
         objs |-> left.objs,
         gauge |-> [gauge EXCEPT ![roomId[c]] = @ - 1],
         backConnection |->
             IF backConnection[c] = "undefined" \/ rid = NoRoom THEN backConnection
             ELSE [backConnection EXCEPT ![c] = "ended"]]

leaveRoom_skipsLeave(c) ==
    [rooms |-> rooms,
     objs |-> roomObjs,
     gauge |-> [gauge EXCEPT ![roomId[c]] = @ - 1],
     backConnection |->
         IF backConnection[c] = "undefined" THEN backConnection
         ELSE [backConnection EXCEPT ![c] = "ended"]]

\* leaveRoom(socket): the values of the room state after the call.
leaveRoom(c) ==
    LET rid == rooms[roomId[c]]
        left == IF rid = NoRoom
                THEN [rooms |-> rooms, objs |-> roomObjs]
                ELSE deleteRoomIfEmpty(rooms, RoomLeave(roomObjs, rid, c), rid)
    IN  [rooms |-> left.rooms,
         objs |-> left.objs,
         gauge |-> [gauge EXCEPT ![roomId[c]] = @ - 1],
         backConnection |->
             IF backConnection[c] = "undefined" THEN backConnection
             ELSE [backConnection EXCEPT ![c] = "ended"]]

\* The client's WebSocket is open: its close handler (which calls leaveRoom
\* and leaveSpaces) has not run and the pusher has not ended it.  Client
\* messages are handled only while it is.
WsOpen(c) ==
    ~leftRoom[c] /\ ~leftSpaces[c] /\ wsEnd[c] = <<>>

\* The room stream exists and has emitted neither "error" nor "end".
RoomStreamLive(c) ==
    backConnection[c] # "undefined" /\ streamEvents[c] = <<>>

\* The room stream exists and has not emitted "end".
RoomStreamReadable(c) ==
    backConnection[c] # "undefined" /\ streamEvents[c] \in {<<>>, <<"error">>}

\* ---- handleJoinRoom, l.224-250: up to `await apiClientRepository.getClient`
HandleJoinRoom(c) ==
    /\ WsOpen(c)
    /\ pcJoin[c] = "idle"
    /\ pcJoin' = [pcJoin EXCEPT ![c] = "awaitClient"]
    /\ joinLocal' = [joinLocal EXCEPT ![c].viewport = viewport[c]]
    /\ UNCHANGED <<rooms, roomObjs, backConnection, streamEvents, backWritten,
                   disconnecting, wsEnd, sent, userId, viewport, gauge, pcTags,
                   leftRoom, received, nMsgs>>
    /\ UNCHANGED <<spaceVars, callVars>>

\* ---- handleJoinRoom, l.250: getClient rejects; the catch of l.332 logs.
JoinRoomClientFailed(c) ==
    /\ pcJoin[c] = "awaitClient"
    /\ pcJoin' = [pcJoin EXCEPT ![c] = "failed"]
    /\ UNCHANGED <<rooms, roomObjs, joinLocal, backConnection, streamEvents,
                   backWritten, disconnecting, wsEnd, sent, userId, viewport,
                   gauge, pcTags, leftRoom, received, nMsgs>>
    /\ UNCHANGED <<spaceVars, callVars>>

\* ---- handleJoinRoom, l.251-330 and getOrCreateRoom l.803-806: from the
\* resolution of getClient to the await of room.init(); when the room is
\* already registered getOrCreateRoom returns at once and l.331 runs as a
\* microtask of this step.
JoinRoomGotClient(c) ==
    /\ pcJoin[c] = "awaitClient"
    /\ gauge' = [gauge EXCEPT ![roomId[c]] = @ + 1]
    /\ backConnection' = [backConnection EXCEPT ![c] = "open"]
    /\ streamEvents' = [streamEvents EXCEPT ![c] = <<>>]
    /\ backWritten' = [backWritten EXCEPT ![c] = Append(@, "joinRoomMessage")]
    /\ IF rooms[roomId[c]] = NoRoom
       THEN /\ roomObjs' = Append(roomObjs, NewRoom(roomId[c]))
            /\ joinLocal' = [joinLocal EXCEPT ![c].room = Len(roomObjs) + 1]
            /\ pcJoin' = [pcJoin EXCEPT ![c] = "awaitInit"]
       ELSE /\ roomObjs' = RoomJoin(roomObjs, rooms[roomId[c]], c)
            /\ joinLocal' = [joinLocal EXCEPT ![c].room = rooms[roomId[c]]]
            /\ pcJoin' = [pcJoin EXCEPT ![c] = "done"]
    /\ UNCHANGED <<rooms, disconnecting, wsEnd, sent, userId, viewport, pcTags,
                   leftRoom, received, nMsgs>>
    /\ UNCHANGED <<spaceVars, callVars>>

\* ---- getOrCreateRoom l.807-809 and handleJoinRoom l.331: room.init() has
\* resolved; register the room this call constructed and join it.
JoinRoomInitDone(c) ==
    /\ pcJoin[c] = "awaitInit"
    /\ rooms' = [rooms EXCEPT ![roomId[c]] = joinLocal[c].room]
    /\ roomObjs' = RoomJoin(roomObjs, joinLocal[c].room, c)
    /\ pcJoin' = [pcJoin EXCEPT ![c] = "done"]
    /\ UNCHANGED <<joinLocal, backConnection, streamEvents, backWritten,
                   disconnecting, wsEnd, sent, userId, viewport, gauge, pcTags,
                   leftRoom, received, nMsgs>>
    /\ UNCHANGED <<spaceVars, callVars>>

\* ---- leaveRoom(socket), l.726-756
LeaveRoom(c) ==
    /\ ~leftRoom[c]
    /\ leftRoom' = [leftRoom EXCEPT ![c] = TRUE]
    /\ rooms' = leaveRoom(c).rooms
    /\ roomObjs' = leaveRoom(c).objs
    /\ gauge' = leaveRoom(c).gauge
    /\ backConnection' = leaveRoom(c).backConnection
    /\ UNCHANGED <<pcJoin, joinLocal, streamEvents, backWritten, disconnecting,
                   wsEnd, sent, userId, viewport, pcTags, received, nMsgs>>
    /\ UNCHANGED <<spaceVars, callVars>>

forwardToClient_unsnoopedOnly(frames, f, disc) ==
    IF ~disc /\ f = "other" THEN Append(frames, f) ELSE frames

\* l.278-281: pass the frame over to the client unless it is disconnecting.
forwardToClient(frames, f, disc) ==
    IF ~disc THEN Append(frames, f) ELSE frames

\* ---- the "data" handler of the room stream, l.257-282
OnRoomData(c, f, version) ==
    /\ RoomStreamLive(c)
    /\ Len(received[c]) < MaxRoomFrames
    /\ received' = [received EXCEPT ![c] = Append(@, f)]
    /\ IF f = "empty"
       THEN UNCHANGED <<userId, viewport, roomObjs, sent>>
       ELSE /\ userId' = IF f = "roomJoinedMessage"
                         THEN [userId EXCEPT ![c] = 1] ELSE userId
            /\ viewport' = IF f = "roomJoinedMessage"
                           THEN handleViewport(roomObjs, c, joinLocal[c].viewport).viewport
                           ELSE viewport
            /\ roomObjs' = CASE f = "roomJoinedMessage" ->
                                  handleViewport(roomObjs, c, joinLocal[c].viewport).objs
                             [] f = "refreshRoomMessage" ->
                                  refreshRoomData(roomObjs, roomId[c], version)
                             [] OTHER -> roomObjs
            /\ sent' = [sent EXCEPT ![c] = forwardToClient(@, f, disconnecting[c])]
    /\ UNCHANGED <<rooms, pcJoin, joinLocal, backConnection, streamEvents,
                   backWritten, disconnecting, wsEnd, gauge, pcTags, leftRoom,
                   nMsgs>>
    /\ UNCHANGED <<spaceVars, callVars>>

\* ---- the "end" handler of the room stream, l.283-295
OnRoomEnd(c) ==
    /\ RoomStreamReadable(c)
    /\ streamEvents' = [streamEvents EXCEPT ![c] = Append(@, "end")]
    /\ IF ~disconnecting[c]
       THEN /\ disconnecting' = closeWebsocketConnection(c, CloseCode).disconnecting
            /\ wsEnd' = closeWebsocketConnection(c, CloseCode).wsEnd
       ELSE UNCHANGED <<disconnecting, wsEnd>>
    /\ UNCHANGED <<rooms, roomObjs, pcJoin, joinLocal, backConnection,
                   backWritten, sent, userId, viewport, gauge, pcTags, leftRoom,
                   received, nMsgs>>
    /\ UNCHANGED <<spaceVars, callVars>>

\* ---- the "error" handler of the room stream, l.296-320
OnRoomError(c) ==
    /\ RoomStreamLive(c)
    /\ streamEvents' = [streamEvents EXCEPT ![c] = Append(@, "error")]
    /\ IF ~disconnecting[c]
       THEN /\ disconnecting' = closeWebsocketConnection(c, CloseCode).disconnecting
            /\ wsEnd' = closeWebsocketConnection(c, CloseCode).wsEnd
       ELSE UNCHANGED <<disconnecting, wsEnd>>
    /\ UNCHANGED <<rooms, roomObjs, pcJoin, joinLocal, backConnection,
                   backWritten, sent, userId, viewport, gauge, pcTags, leftRoom,
                   received, nMsgs>>
    /\ UNCHANGED <<spaceVars, callVars>>

\* ---- handleViewport(client, viewport) on a client viewport message, l.586-602
HandleViewport(c, v) ==
    /\ WsOpen(c)
    /\ nMsgs < MaxClientMsgs
    /\ nMsgs' = nMsgs + 1
    /\ viewport' = handleViewport(roomObjs, c, v).viewport
    /\ roomObjs' = handleViewport(roomObjs, c, v).objs
    /\ UNCHANGED <<rooms, pcJoin, joinLocal, backConnection, streamEvents,
                   backWritten, disconnecting, wsEnd, sent, userId, gauge,
                   pcTags, leftRoom, received>>
    /\ UNCHANGED <<spaceVars, callVars>>

\* ---- emitWorldFullMessage(client), l.912-925
EmitWorldFullMessage(c) ==
    /\ nMsgs < MaxClientMsgs
    /\ nMsgs' = nMsgs + 1
    /\ sent' = IF ~disconnecting[c]
               THEN [sent EXCEPT ![c] = Append(@, "worldFullMessage")]
               ELSE sent
    /\ UNCHANGED <<rooms, roomObjs, pcJoin, joinLocal, backConnection, streamEvents,
                   backWritten, disconnecting, wsEnd, userId, viewport, gauge,
                   pcTags, leftRoom, received>>
    /\ UNCHANGED <<spaceVars, callVars>>

\* ---- handleRoomTagsQuery, l.1177-1180: up to `await adminService.getTagsList`
HandleRoomTagsQuery(c) ==
    /\ WsOpen(c)
    /\ pcTags[c] = "idle"
    /\ nMsgs < MaxClientMsgs
    /\ nMsgs' = nMsgs + 1
    /\ pcTags' = [pcTags EXCEPT ![c] = "await"]
    /\ UNCHANGED <<rooms, roomObjs, pcJoin, joinLocal, backConnection, streamEvents,
                   backWritten, disconnecting, wsEnd, sent, userId, viewport,
                   gauge, leftRoom, received>>
    /\ UNCHANGED <<spaceVars, callVars>>

\* ---- handleRoomTagsQuery, l.1181-1202: getTagsList resolved or rejected
\* (tags = []); either way the answer is sent.
RoomTagsQueryAnswer(c) ==
    /\ pcTags[c] = "await"
    /\ pcTags' = [pcTags EXCEPT ![c] = "idle"]
    /\ sent' = [sent EXCEPT ![c] = Append(@, "answerMessage")]
    /\ UNCHANGED <<rooms, roomObjs, pcJoin, joinLocal, backConnection, streamEvents,
                   backWritten, disconnecting, wsEnd, userId, viewport, gauge,
                   leftRoom, received, nMsgs>>
    /\ UNCHANGED <<spaceVars, callVars>>


\* ==================================================================== spaces
\* The space side of the state as one value, so that a handler that makes
\* several calls in a row (a loop, the reactions of a promise) is one step.
SpState ==
    [spaces |-> spaces, objs |-> spaceObjs, entry |-> spaceStreamsToBack,
     conns |-> conns, cspaces |-> clientSpaces, filters |-> spacesFilters]

Frame(case, name, user) ==
    [case |-> case, spaceName |-> name, user |-> user]

\* The promise stored at l.532: pending until getSpaceClient resolves.
\* waiters are the reactions registered on it while it is pending; resumed
\* counts the handleJoinSpace calls that were suspended on it and resumed.
\* Of the stream it resolves to: ended is set by end(), alive is true until
\* the stream emits "end", errored once it has emitted "error", written are
\* the frames passed to write(), pingTimeout tells that the pingTimeout
\* handle refers to a timer that is still armed, timers counts the armed
\* timers, pings the pingMessages received, metadataRead the number of
\* updateSpaceMetadataMessages read, lastMetadata the metadata of the last
\* one, thrown the exceptions that left the "data" handler.
NewConn(b, waiter) ==
    [backId |-> b, state |-> "pending", ended |-> FALSE, alive |-> FALSE,
     errored |-> FALSE, pingTimeout |-> FALSE, timers |-> 0, pings |-> 0,
     written |-> <<>>, waiters |-> <<waiter>>, resumed |-> 0,
     metadataRead |-> 0, lastMetadata |-> "", thrown |-> 0]

\* The metadata of a Space: the value of its key "k", 0 when the key is not
\* set.  A new Space has no metadata.
NoMetadata == [k |-> 0, j |-> 0]

JoinWaiter(c, name) == [kind |-> "join", c |-> c, name |-> name]
EndWaiter == [kind |-> "end", c |-> "", name |-> ""]

\* The callback handleUpdateSpaceMetadata chains on a pending promise, l.354-364
MetadataWaiter(c, name, value) ==
    [kind |-> "metadata", c |-> c, name |-> name, value |-> value]

\* The metadata updates a client sends: one key each; 0 is a key the update
\* does not hold.
MetadataUpdates == {[k |-> 1, j |-> 0], [k |-> 2, j |-> 0], [k |-> 0, j |-> 1]}

\* JSON.stringify(metadata), l.360
JSONStringify(value) ==
    CASE value.k = 1 /\ value.j = 0 -> "{\"k\":1}"
      [] value.k = 2 /\ value.j = 0 -> "{\"k\":2}"
      [] value.k = 0 /\ value.j = 1 -> "{\"j\":1}"
      [] OTHER -> "{}"

\* The names registered in this.spaces whose Space has backId b.
SpacesOnBack(S, b) ==
    {n \in SpaceNames : S.spaces[n] # NoSpace /\ S.objs[S.spaces[n]].backId = b}

\* BackSpaceConnection.write(frame)
ConnWrite(S, e, frame) ==
    [S EXCEPT !.conns[e].written = Append(@, frame)]

\* BackSpaceConnection.end()
ConnEnd(S, e) ==
    [S EXCEPT !.conns[e].ended = TRUE]

\* Space.addClientWatcher(client)
SpaceAddClientWatcher(S, o, c) ==
    [S EXCEPT !.objs[o].watchers = @ \cup {c}]

\* Space.removeClientWatcher(client)
SpaceRemoveClientWatcher(S, o, c) ==
    [S EXCEPT !.objs[o].watchers = @ \ {c}]

\* Space.addUser(spaceUser, client): register the user; the first local
\* registration also sends an addSpaceUserMessage to the back, on the
\* stream the Space was constructed with.  A user is keyed by its client.
SpaceAddUser(S, o, c) ==
    IF c \in S.objs[o].users
    THEN S
    ELSE ConnWrite([S EXCEPT !.objs[o].users = @ \cup {c}], S.objs[o].conn,
                   Frame("addSpaceUserMessage", S.objs[o].name, c))

\* Space.removeUser(userId)
SpaceRemoveUser(S, o, c) ==
    [S EXCEPT !.objs[o].users = @ \ {c}]

\* clearTimeout(spaceStreamToBack.pingTimeout) when the handle is set: a
\* no-op on a timer that has fired.
ClearPingTimeout(S, e) ==
    IF S.conns[e].pingTimeout
    THEN [S EXCEPT !.conns[e].pingTimeout = FALSE, !.conns[e].timers = @ - 1]
    ELSE S

\* spaceStreamToBack.pingTimeout = setTimeout(.., 1000 * 60)
SetPingTimeout(S, e) ==
    [S EXCEPT !.conns[e].pingTimeout = TRUE, !.conns[e].timers = @ + 1]

\* cleanupSpaceStreamToBack of the stream created for backId b, l.380-387
cleanupSpaceStreamToBack(S, b) ==
    [S EXCEPT !.entry[b] = NoStream,
              !.spaces = [n \in SpaceNames |->
                            IF n \in SpacesOnBack(S, b) THEN NoSpace ELSE S.spaces[n]]]

\* l.776-778: spaceStreamBack.then((connection) => connection.end()).catch(..)
ThenEnd(S, e) ==
    CASE S.conns[e].state = "open" -> ConnEnd(S, e)
      [] S.conns[e].state = "pending" ->
             [S EXCEPT !.conns[e].waiters = Append(@, EndWaiter)]
      [] OTHER -> S

deleteSpaceIfEmpty_never(S, o) ==
    S

deleteSpaceIfEmpty_keepsStream(S, o) ==
    IF S.objs[o].watchers # {}
    THEN S
    ELSE [S EXCEPT !.spaces[S.objs[o].name] = NoSpace]

\* deleteSpaceIfEmpty(space), l.769-784
deleteSpaceIfEmpty(S, o) ==
    IF S.objs[o].watchers # {}
    THEN S
    ELSE LET S1 == [S EXCEPT !.spaces[S.objs[o].name] = NoSpace]
             b == S.objs[o].backId
             e == S1.entry[b]
         IN  IF SpacesOnBack(S1, b) = {} /\ e # NoStream
             THEN [ThenEnd(S1, e) EXCEPT !.entry[b] = NoStream]
             ELSE S1

joinSpaceAfterAwait_noPush(S, c, name, e) ==
    LET o == S.spaces[name]
        new == Len(S.objs) + 1
        S1 == IF o = NoSpace
              THEN ConnWrite(
                     [S EXCEPT !.objs = Append(@, [name |-> name, backId |-> getIndex[name],
                                                   watchers |-> {c}, users |-> {},
                                                   conn |-> e, metadata |-> NoMetadata]),
                               !.spaces[name] = new],
                     e, Frame("joinSpaceMessage", name, ""))
              ELSE SpaceAddClientWatcher(S, o, c)
        space == IF o = NoSpace THEN new ELSE o
    IN  SpaceAddUser(S1, space, c)

joinSpaceAfterAwait_alwaysNew(S, c, name, e) ==
    LET new == Len(S.objs) + 1
        S1 == ConnWrite(
                [S EXCEPT !.objs = Append(@, [name |-> name, backId |-> getIndex[name],
                                              watchers |-> {c}, users |-> {},
                                              conn |-> e, metadata |-> NoMetadata]),
                          !.spaces[name] = new],
                e, Frame("joinSpaceMessage", name, ""))
        S2 == SpaceAddUser(S1, new, c)
    IN  [S2 EXCEPT !.cspaces[c] = Append(@, new)]

\* handleJoinSpace after `await spaceStreamToBackPromise`, l.537-567, with
\* spaceStreamToBack = e.  new Space(.., client, ..) makes the client the
\* first watcher.
joinSpaceAfterAwait(S, c, name, e) ==
    LET o == S.spaces[name]
        new == Len(S.objs) + 1
        S1 == IF o = NoSpace
              THEN ConnWrite(
                     [S EXCEPT !.objs = Append(@, [name |-> name, backId |-> getIndex[name],
                                                   watchers |-> {c}, users |-> {},
                                                   conn |-> e, metadata |-> NoMetadata]),
                               !.spaces[name] = new],
                     e, Frame("joinSpaceMessage", name, ""))
              ELSE SpaceAddClientWatcher(S, o, c)
        space == IF o = NoSpace THEN new ELSE o
        S2 == SpaceAddUser(S1, space, c)
    IN  [S2 EXCEPT !.cspaces[c] = Append(@, space)]

handleJoinSpace_alwaysCreates(S, c, name) ==
    LET b == getIndex[name]
    IN  [S EXCEPT !.conns = Append(@, NewConn(b, JoinWaiter(c, name))),
                  !.entry[b] = Len(S.conns) + 1]

\* handleJoinSpace(client, spaceName, localSpaceName), l.372-535: up to
\* `await spaceStreamToBackPromise`; on a fulfilled promise the rest of the
\* handler follows as a microtask, on a rejected one the catch of l.575.
handleJoinSpace(S, c, name) ==
    LET b == getIndex[name]
        e == S.entry[b]
    IN  CASE e = NoStream ->
               [S EXCEPT !.conns = Append(@, NewConn(b, JoinWaiter(c, name))),
                         !.entry[b] = Len(S.conns) + 1]
          [] e # NoStream /\ S.conns[e].state = "pending" ->
               [S EXCEPT !.conns[e].waiters = Append(@, JoinWaiter(c, name))]
          [] e # NoStream /\ S.conns[e].state = "open" ->
               joinSpaceAfterAwait(S, c, name, e)
          [] OTHER -> S

\* The reactions of promise e, run in registration order once it is fulfilled.
RECURSIVE RunWaiters(_, _, _)
RunWaiters(S, e, ws) ==
    IF ws = <<>>
    THEN S
    ELSE LET w == Head(ws)
             S1 == IF w.kind = "join"
                   THEN [joinSpaceAfterAwait(S, w.c, w.name, e)
                           EXCEPT !.conns[e].resumed = @ + 1]
                   ELSE IF w.kind = "metadata"
                   THEN ConnWrite(S, e, Frame("updateSpaceMetadataMessage", w.name,
                                              JSONStringify(w.value)))
                   ELSE ConnEnd(S, e)
         IN  RunWaiters(S1, e, Tail(ws))

handleLeaveSpace_keepsList(S, c, name) ==
    LET o == S.spaces[name]
    IN  IF o = NoSpace
        THEN S
        ELSE deleteSpaceIfEmpty(
               SpaceRemoveUser(SpaceRemoveClientWatcher(S, o, c), o, c), o)

\* handleLeaveSpace(client, spaceName), l.1270-1279
handleLeaveSpace(S, c, name) ==
    LET o == S.spaces[name]
    IN  IF o = NoSpace
        THEN S
        ELSE LET S1 == SpaceRemoveUser(SpaceRemoveClientWatcher(S, o, c), o, c)
                 S2 == [S1 EXCEPT !.cspaces[c] =
                           SelectSeq(@, LAMBDA x : S1.objs[x].name # name)]
             IN  deleteSpaceIfEmpty(S2, o)

\* The loop of leaveSpaces over socketData.spaces, l.761-765
RECURSIVE LeaveEach(_, _, _)
LeaveEach(S, c, list) ==
    IF list = <<>>
    THEN S
    ELSE LET o == Head(list)
             S1 == SpaceRemoveUser(SpaceRemoveClientWatcher(S, o, c), o, c)
         IN  LeaveEach(deleteSpaceIfEmpty(S1, o), c, Tail(list))

leaveSpaces_keepsList(S, c) ==
    LET S1 == [S EXCEPT !.filters[c] = NoFilters]
    IN  LeaveEach(S1, c, S1.cspaces[c])

\* leaveSpaces(socket), l.758-767
leaveSpaces(S, c) ==
    LET S1 == [S EXCEPT !.filters[c] = NoFilters]
        S2 == LeaveEach(S1, c, S1.cspaces[c])
    IN  [S2 EXCEPT !.cspaces[c] = <<>>]

\* The space side of the next state is S.
SetSpaces(S) ==
    /\ spaces' = S.spaces
    /\ spaceObjs' = S.objs
    /\ spaceStreamsToBack' = S.entry
    /\ conns' = S.conns
    /\ clientSpaces' = S.cspaces
    /\ spacesFilters' = S.filters

\* ---- handleJoinSpace called for a client message
HandleJoinSpace(c, name) ==
    /\ WsOpen(c)
    /\ nJoinSpace < MaxJoinSpace
    /\ nJoinSpace' = nJoinSpace + 1
    /\ SetSpaces(handleJoinSpace(SpState, c, name))
    /\ UNCHANGED <<leftSpaces, nPings>>
    /\ UNCHANGED <<roomVars, callVars>>

\* ---- l.389-530: getSpaceClient resolved; watchSpace() gives the stream,
\* the promise is fulfilled and its reactions run.
SpaceStreamCreated(e) ==
    /\ e \in DOMAIN conns
    /\ conns[e].state = "pending"
    /\ SetSpaces(RunWaiters(
           [SpState EXCEPT !.conns[e].state = "open", !.conns[e].alive = TRUE,
                           !.conns[e].waiters = <<>>],
           e, conns[e].waiters))
    /\ UNCHANGED <<leftSpaces, nJoinSpace, nPings>>
    /\ UNCHANGED <<roomVars, callVars>>

\* ---- l.389: getSpaceClient rejected; the promise is rejected, every handler
\* awaiting it goes to its catch (l.575), the stored promise stays.
SpaceStreamRejected(e) ==
    /\ e \in DOMAIN conns
    /\ conns[e].state = "pending"
    /\ SetSpaces([SpState EXCEPT !.conns[e].state = "rejected",
                                 !.conns[e].waiters = <<>>])
    /\ UNCHANGED <<leftSpaces, nJoinSpace, nPings>>
    /\ UNCHANGED <<roomVars, callVars>>

onPingMessage_noClear(S, e) ==
    SetPingTimeout(ConnWrite(S, e, Frame("pongMessage", "", "")), e)

\* The pingMessage case of the "data" handler, l.447-469
onPingMessage(S, e) ==
    SetPingTimeout(
        ConnWrite(ClearPingTimeout(S, e), e, Frame("pongMessage", "", "")), e)

\* ---- the "data" handler of a space stream, case pingMessage, l.447-469
OnSpacePing(e) ==
    /\ e \in DOMAIN conns
    /\ conns[e].state = "open" /\ conns[e].alive /\ ~conns[e].errored
    /\ nPings < MaxPings
    /\ nPings' = nPings + 1
    /\ SetSpaces(onPingMessage([SpState EXCEPT !.conns[e].pings = @ + 1], e))
    /\ UNCHANGED <<leftSpaces, nJoinSpace>>
    /\ UNCHANGED <<roomVars, callVars>>

\* ---- a watchdog armed at l.460 fires, l.461-466.  The handle keeps
\* referring to the fired timer.
OnSpacePingTimeout(e) ==
    /\ e \in DOMAIN conns
    /\ conns[e].timers > 0
    /\ SetSpaces(cleanupSpaceStreamToBack(
           ConnEnd([SpState EXCEPT !.conns[e].timers = @ - 1,
                                   !.conns[e].pingTimeout =
                                       IF conns[e].timers = 1 THEN FALSE ELSE @], e),
           conns[e].backId))
    /\ UNCHANGED <<leftSpaces, nJoinSpace, nPings>>
    /\ UNCHANGED <<roomVars, callVars>>

\* The "end" handler of a space stream, l.507-511
onSpaceStreamEnd(S, e) ==
    cleanupSpaceStreamToBack(ClearPingTimeout(S, e), S.conns[e].backId)

\* ---- the "end" handler of a space stream, l.507-511
OnSpaceEnd(e) ==
    /\ e \in DOMAIN conns
    /\ conns[e].state = "open" /\ conns[e].alive
    /\ SetSpaces(onSpaceStreamEnd([SpState EXCEPT !.conns[e].alive = FALSE], e))
    /\ UNCHANGED <<leftSpaces, nJoinSpace, nPings>>
    /\ UNCHANGED <<roomVars, callVars>>

\* ---- the "error" handler of a space stream, l.512-529: reports the error.
\* The stream may emit "end" afterwards.
OnSpaceError(e) ==
    /\ e \in DOMAIN conns
    /\ conns[e].state = "open" /\ conns[e].alive /\ ~conns[e].errored
    /\ SetSpaces([SpState EXCEPT !.conns[e].errored = TRUE])
    /\ UNCHANGED <<leftSpaces, nJoinSpace, nPings>>
    /\ UNCHANGED <<roomVars, callVars>>

\* The metadata texts a back may send: text that is not JSON, JSON that is
\* not an object, and two objects.
MetadataTexts == {"{", "[1]", "{\"k\":1}", "{\"k\":2}"}

\* JSON.parse(text), l.432: throws a SyntaxError on text that is not JSON,
\* else gives the value.
JSONParse(text) ==
    CASE text = "{" -> [threw |-> TRUE, kind |-> "none", k |-> 0, j |-> 0]
      [] text = "[1]" -> [threw |-> FALSE, kind |-> "array", k |-> 0, j |-> 0]
      [] text = "{\"k\":1}" -> [threw |-> FALSE, kind |-> "object", k |-> 1, j |-> 0]
      [] text = "{\"k\":2}" -> [threw |-> FALSE, kind |-> "object", k |-> 2, j |-> 0]

\* z.record(z.string(), z.unknown()).safeParse(value).success, l.430-432
isMetadata(value) ==
    value.kind = "object"

\* Space.localUpdateMetadata(metadata): set the keys of the update, keep the
\* others.
SpaceLocalUpdateMetadata(S, o, value) ==
    [S EXCEPT !.objs[o].metadata =
                  [k |-> IF value.k # 0 THEN value.k ELSE @.k,
                   j |-> IF value.j # 0 THEN value.j ELSE @.j]]

\* The updateSpaceMetadataMessage case of the "data" handler, l.425-446
onUpdateSpaceMetadataMessage(S, e, name, text) ==
    IF JSONParse(text).threw
    THEN [S EXCEPT !.conns[e].thrown = @ + 1]
    ELSE IF ~isMetadata(JSONParse(text))
    THEN S
    ELSE IF S.spaces[name] = NoSpace
    THEN S
    ELSE SpaceLocalUpdateMetadata(S, S.spaces[name], JSONParse(text))

\* ---- the "data" handler of a space stream, case
\* updateSpaceMetadataMessage, l.425-446
OnSpaceMetadata(e, name, text) ==
    /\ e \in DOMAIN conns
    /\ conns[e].state = "open" /\ conns[e].alive /\ ~conns[e].errored
    /\ conns[e].metadataRead < MaxMetadataFrames
    /\ SetSpaces(onUpdateSpaceMetadataMessage(
           [SpState EXCEPT !.conns[e].metadataRead = @ + 1,
                           !.conns[e].lastMetadata = text],
           e, name, text))
    /\ UNCHANGED <<leftSpaces, nJoinSpace, nPings>>
    /\ UNCHANGED <<roomVars, callVars>>

MetadataCall(op, c, name, value) ==
    [op |-> op, c |-> c, name |-> name, value |-> value]

\* handleUpdateSpaceMetadata, l.338-370: no stream registered for the backId
\* throws into the catch of l.365; else the registered space, if any, merges
\* the update, and the write is chained on the registered promise: done at
\* once on a fulfilled one, later on a pending one, never on a rejected one
\* (the rejection lands in the same catch).
handleUpdateSpaceMetadata(S, c, name, value) ==
    LET e == S.entry[getIndex[name]]
        S1 == IF S.spaces[name] = NoSpace
              THEN S
              ELSE SpaceLocalUpdateMetadata(S, S.spaces[name], value)
    IN  IF e = NoStream
        THEN S
        ELSE CASE S1.conns[e].state = "open" ->
                      ConnWrite(S1, e, Frame("updateSpaceMetadataMessage", name,
                                             JSONStringify(value)))
               [] S1.conns[e].state = "pending" ->
                      [S1 EXCEPT !.conns[e].waiters =
                                     Append(@, MetadataWaiter(c, name, value))]
               [] OTHER -> S1

\* ---- handleUpdateSpaceMetadata called for a client message
HandleUpdateSpaceMetadata(c, name, value) ==
    /\ WsOpen(c)
    /\ nMsgs < MaxClientMsgs
    /\ nMsgs' = nMsgs + 1
    /\ SetSpaces(handleUpdateSpaceMetadata(SpState, c, name, value))
    /\ calls' = Append(calls, MetadataCall("updateSpaceMetadata", c, name, value))
    /\ UNCHANGED <<rooms, roomObjs, pcJoin, joinLocal, backConnection, streamEvents,
                   backWritten, disconnecting, wsEnd, sent, userId, viewport,
                   gauge, pcTags, leftRoom, received>>
    /\ UNCHANGED <<leftSpaces, nJoinSpace, nPings, spaceUser, adminVars>>

\* ---- handleLeaveSpace called for a client message
HandleLeaveSpace(c, name) ==
    /\ WsOpen(c)
    /\ SetSpaces(handleLeaveSpace(SpState, c, name))
    /\ UNCHANGED <<leftSpaces, nJoinSpace, nPings>>
    /\ UNCHANGED <<roomVars, callVars>>

\* ---- leaveSpaces called when the client's WebSocket closes
LeaveSpaces(c) ==
    /\ ~leftSpaces[c]
    /\ leftSpaces' = [leftSpaces EXCEPT ![c] = TRUE]
    /\ SetSpaces(leaveSpaces(SpState, c))
    /\ UNCHANGED <<nJoinSpace, nPings>>
    /\ UNCHANGED <<roomVars, callVars>>

\* ---- the close handler of the client's WebSocket: sets disconnecting,
\* then calls leaveRoom and leaveSpaces.
ClientClose(c) ==
    /\ ~leftRoom[c] /\ ~leftSpaces[c]
    /\ leftRoom' = [leftRoom EXCEPT ![c] = TRUE]
    /\ leftSpaces' = [leftSpaces EXCEPT ![c] = TRUE]
    /\ disconnecting' = [disconnecting EXCEPT ![c] = TRUE]
    /\ rooms' = leaveRoom(c).rooms
    /\ roomObjs' = leaveRoom(c).objs
    /\ gauge' = leaveRoom(c).gauge
    /\ backConnection' = leaveRoom(c).backConnection
    /\ SetSpaces(leaveSpaces(SpState, c))
    /\ UNCHANGED <<pcJoin, joinLocal, streamEvents, backWritten, wsEnd, sent,
                   userId, viewport, pcTags, received, nMsgs, nJoinSpace, nPings>>
    /\ UNCHANGED callVars

\* ============================================================ player details
\* An entry of calls: a handler that starts (op "setPlayerDetails" or
\* "updateSpaceUser", with the user and mask of its message), a call of
\* Space.updateUser(user, mask) on a Space, or an error thrown by a handler.
Call(op, c, space, mask, user) ==
    [op |-> op, c |-> c, space |-> space, mask |-> mask, user |-> user]

NoUser == [availabilityStatus |-> 0, chatID |-> ""]

\* The message and user values of the handlers.
Users == [availabilityStatus : AvailabilityStatuses, chatID : ChatIDs]

fieldMask_anyChange(user, msg) ==
    (IF user.availabilityStatus # msg.availabilityStatus
     THEN <<"availabilityStatus">> ELSE <<>>)
    \o (IF user.chatID # msg.chatID THEN <<"chatID">> ELSE <<>>)

\* The fieldMask of handleSetPlayerDetails, l.664-673
fieldMask(user, msg) ==
    (IF user.availabilityStatus # msg.availabilityStatus /\ msg.availabilityStatus # 0
     THEN <<"availabilityStatus">> ELSE <<>>)
    \o (IF user.chatID # msg.chatID /\ msg.chatID # ""
        THEN <<"chatID">> ELSE <<>>)

\* socketData.spaces.forEach((space) => space.updateUser(user, mask))
UpdateEach(c, list, user, mask) ==
    [i \in 1..Len(list) |-> Call("updateUser", c, list[i], mask, user)]

\* handleSetPlayerDetails(client, playerDetailsMessage), l.655-684, with
\* forwardMessageToBack, l.1067-1079: the frames written on the room stream
\* and the calls made.
handleSetPlayerDetails(c, msg) ==
    IF backConnection[c] = "undefined"
    THEN [backWritten |-> backWritten,
          calls |-> <<Call("throw", c, NoSpace, <<>>, NoUser)>>]
    ELSE [backWritten |-> [backWritten EXCEPT ![c] = Append(@, "setPlayerDetailsMessage")],
          calls |-> IF Len(fieldMask(spaceUser[c], msg)) > 0
                    THEN UpdateEach(c, clientSpaces[c], msg, fieldMask(spaceUser[c], msg))
                    ELSE <<>>]

\* ---- handleSetPlayerDetails called for a client message
HandleSetPlayerDetails(c, msg) ==
    /\ WsOpen(c)
    /\ nMsgs < MaxClientMsgs
    /\ nMsgs' = nMsgs + 1
    /\ backWritten' = handleSetPlayerDetails(c, msg).backWritten
    /\ calls' = Append(calls, Call("setPlayerDetails", c, NoSpace, <<>>, msg))
                    \o handleSetPlayerDetails(c, msg).calls
    /\ UNCHANGED <<rooms, roomObjs, pcJoin, joinLocal, backConnection, streamEvents,
                   disconnecting, wsEnd, sent, userId, viewport, gauge, pcTags,
                   leftRoom, received>>
    /\ UNCHANGED <<spaceVars, spaceUser, adminVars>>

\* merge(socketData.spaceUser, applyFieldMask(message.user, message.updateMask))
MergeUser(user, update, mask) ==
    [availabilityStatus |->
         IF \E i \in DOMAIN mask : mask[i] = "availabilityStatus"
         THEN update.availabilityStatus ELSE user.availabilityStatus,
     chatID |->
         IF \E i \in DOMAIN mask : mask[i] = "chatID"
         THEN update.chatID ELSE user.chatID]

\* socketData.spaces.find((space) => space.name === spaceName): 0 when none
FindSpace(c, name) ==
    LET found == SelectSeq(clientSpaces[c], LAMBDA o : spaceObjs[o].name = name)
    IN  IF found = <<>> THEN NoSpace ELSE Head(found)

\* ---- handleUpdateSpaceUser(client, updateSpaceUserMessage), l.1162-1175
HandleUpdateSpaceUser(c, name, user, mask) ==
    /\ WsOpen(c)
    /\ nMsgs < MaxClientMsgs
    /\ nMsgs' = nMsgs + 1
    /\ spaceUser' = [spaceUser EXCEPT ![c] = MergeUser(@, user, mask)]
    /\ calls' = calls \o
           << Call("updateSpaceUser", c, NoSpace, mask, user),
              IF FindSpace(c, name) = NoSpace
              THEN Call("throw", c, NoSpace, <<>>, NoUser)
              ELSE Call("updateUser", c, FindSpace(c, name), mask, user) >>
    /\ UNCHANGED <<rooms, roomObjs, pcJoin, joinLocal, backConnection, streamEvents,
                   backWritten, disconnecting, wsEnd, sent, userId, viewport,
                   gauge, pcTags, leftRoom, received>>
    /\ UNCHANGED <<spaceVars, adminVars>>

\* ========================================================== admin operations
\* An entry of adminCalls: a handler that starts, a call of the admin
\* service or of an RPC of the back, or an error thrown out of a handler.
AdminCall(op, c, room, content, type) ==
    [op |-> op, c |-> c, room |-> room, content |-> content, type |-> type]

isAdmin_always(c) ==
    TRUE

\* socketData.tags.includes("admin"), l.705 and l.1039
isAdmin(c) ==
    "admin" \in tags[c]

\* The messages of emitPlayGlobalMessage.
PlayGlobalMessages ==
    [broadcastToWorld : BOOLEAN, content : Contents, type : Types]

\* ---- handleBanPlayerMessage, l.702-707: return for a client that is not
\* an admin, else up to `await adminService.banUserByUuid`
HandleBanPlayerMessage(c) ==
    /\ WsOpen(c)
    /\ pcAdmin[c].ban = "idle"
    /\ nMsgs < MaxClientMsgs
    /\ nMsgs' = nMsgs + 1
    /\ IF ~isAdmin(c)
       THEN /\ adminCalls' = Append(adminCalls,
                                 AdminCall("handleBanPlayerMessage", c, "", "", ""))
            /\ UNCHANGED pcAdmin
       ELSE /\ adminCalls' = adminCalls \o
                   << AdminCall("handleBanPlayerMessage", c, "", "", ""),
                      AdminCall("banUserByUuid", c, roomId[c], "", "") >>
            /\ pcAdmin' = [pcAdmin EXCEPT ![c].ban = "awaitBanUser"]
    /\ UNCHANGED <<rooms, roomObjs, pcJoin, joinLocal, backConnection, streamEvents,
                   backWritten, disconnecting, wsEnd, sent, userId, viewport,
                   gauge, pcTags, leftRoom, received>>
    /\ UNCHANGED <<spaceVars, spaceUser, calls>>

\* ---- handleBanPlayerMessage, l.714: banUserByUuid resolved; emitBan, l.843-844,
\* up to `await apiClientRepository.getClient`
BanUserByUuidDone(c) ==
    /\ pcAdmin[c].ban = "awaitBanUser"
    /\ pcAdmin' = [pcAdmin EXCEPT ![c].ban = "awaitClient"]
    /\ UNCHANGED <<roomVars, spaceVars, spaceUser, calls, adminCalls>>

\* ---- emitBan, l.845-857: getClient resolved; the ban RPC is called
EmitBanGotClient(c) ==
    /\ pcAdmin[c].ban = "awaitClient"
    /\ pcAdmin' = [pcAdmin EXCEPT ![c].ban = "idle"]
    /\ adminCalls' = Append(adminCalls, AdminCall("ban", c, roomId[c],
                                "You have been banned by an admin", "ban"))
    /\ UNCHANGED <<roomVars, spaceVars, spaceUser, calls>>

\* ---- handleBanPlayerMessage, l.720-723: banUserByUuid or getClient
\* rejected; the catch reports the error.
BanFailed(c) ==
    /\ pcAdmin[c].ban \in {"awaitBanUser", "awaitClient"}
    /\ pcAdmin' = [pcAdmin EXCEPT ![c].ban = "idle"]
    /\ UNCHANGED <<roomVars, spaceVars, spaceUser, calls, adminCalls>>

roomMessage_noType(msg, url) ==
    AdminCall("sendAdminMessageToRoom", "", url, msg.content, "")

\* The AdminRoomMessage of l.1055-1059, as passed to sendAdminMessageToRoom
roomMessage(msg, url) ==
    AdminCall("sendAdminMessageToRoom", "", url, msg.content, msg.type)

\* ---- emitPlayGlobalMessage, l.1037-1054: throw for a client that is not an
\* admin; else up to `await adminService.getUrlRoomsFromSameWorld` when
\* broadcastToWorld, up to the first `await getClient` of the loop otherwise
EmitPlayGlobalMessage(c, msg) ==
    /\ WsOpen(c)
    /\ pcAdmin[c].global \in {"idle", "done", "failed"}
    /\ nMsgs < MaxClientMsgs
    /\ nMsgs' = nMsgs + 1
    /\ IF ~isAdmin(c)
       THEN /\ adminCalls' = adminCalls \o
                   << AdminCall("emitPlayGlobalMessage", c, "", msg.content, msg.type),
                      AdminCall("throw", c, "", "", "") >>
            /\ UNCHANGED pcAdmin
       ELSE IF msg.broadcastToWorld
       THEN /\ adminCalls' = adminCalls \o
                   << AdminCall("emitPlayGlobalMessage", c, "", msg.content, msg.type),
                      AdminCall("getUrlRoomsFromSameWorld", c, roomId[c], "", "") >>
            /\ pcAdmin' = [pcAdmin EXCEPT ![c].global = "awaitRooms", ![c].msg = msg,
                                          ![c].tabUrlRooms = <<>>, ![c].next = 1,
                                          ![c].from = Len(adminCalls)]
       ELSE /\ adminCalls' = Append(adminCalls,
                   AdminCall("emitPlayGlobalMessage", c, "", msg.content, msg.type))
            /\ pcAdmin' = [pcAdmin EXCEPT ![c].global = "awaitClient", ![c].msg = msg,
                                          ![c].tabUrlRooms = <<roomId[c]>>,
                                          ![c].next = 1, ![c].from = Len(adminCalls)]
    /\ UNCHANGED <<rooms, roomObjs, pcJoin, joinLocal, backConnection, streamEvents,
                   backWritten, disconnecting, wsEnd, sent, userId, viewport,
                   gauge, pcTags, leftRoom, received>>
    /\ UNCHANGED <<spaceVars, spaceUser, calls>>

\* ---- emitPlayGlobalMessage, l.1047-1048: the admin service returned the
\* rooms of the world; the loop starts, or the handler returns on no room
GlobalRoomsReturned(c, urls) ==
    /\ pcAdmin[c].global = "awaitRooms"
    /\ pcAdmin' = [pcAdmin EXCEPT ![c].tabUrlRooms = urls,
                                  ![c].global = IF urls = <<>> THEN "done"
                                                ELSE "awaitClient"]
    /\ UNCHANGED <<roomVars, spaceVars, spaceUser, calls, adminCalls>>

\* ---- emitPlayGlobalMessage, l.1053-1063: getClient(roomUrl) resolved;
\* sendAdminMessageToRoom is called and the loop goes on
GlobalGotClient(c) ==
    /\ pcAdmin[c].global = "awaitClient"
    /\ adminCalls' = Append(adminCalls,
           [roomMessage(pcAdmin[c].msg, pcAdmin[c].tabUrlRooms[pcAdmin[c].next])
               EXCEPT !.c = c])
    /\ pcAdmin' = [pcAdmin EXCEPT
           ![c].next = @ + 1,
           ![c].global = IF pcAdmin[c].next = Len(pcAdmin[c].tabUrlRooms)
                         THEN "done" ELSE "awaitClient"]
    /\ UNCHANGED <<roomVars, spaceVars, spaceUser, calls>>

\* ---- emitPlayGlobalMessage, l.1047 or l.1054: getUrlRoomsFromSameWorld or
\* getClient rejected; the error leaves the handler
GlobalFailed(c) ==
    /\ pcAdmin[c].global \in {"awaitRooms", "awaitClient"}
    /\ pcAdmin' = [pcAdmin EXCEPT ![c].global = "failed"]
    /\ adminCalls' = Append(adminCalls, AdminCall("throw", c, "", "", ""))
    /\ UNCHANGED <<roomVars, spaceVars, spaceUser, calls>>

\* ============================================================== space events
\* An entry of calls made by a space event handler: the handler that starts
\* (op "publicEvent" or "privateEvent", with the space name and the sender
\* of the client's message) or the error it throws.
Event(op, c, name, sender) ==
    [op |-> op, c |-> c, name |-> name, sender |-> sender]

\* The $case values of the two event handlers.
EventKinds == {"publicEvent", "privateEvent"}
\* The senderUserId values a client may put in its message.
SenderIds == {1, 2}

\* Space.forwardMessageToSpaceBack(frame): write on the stream the Space was
\* constructed with.
SpaceForwardMessageToSpaceBack(S, o, frame) ==
    ConnWrite(S, S.objs[o].conn, frame)

stampSender_keepsSender(kind, name, sender, uid) ==
    Frame(kind, name, sender)

\* { ...publicEvent, senderUserId: socketData.userId }, l.1449-1455 and
\* l.1471-1477
stampSender(kind, name, sender, uid) ==
    Frame(kind, name, uid)

\* ---- handlePublicEvent, l.1435-1456, and handlePrivateEvent, l.1458-1478
HandleSpaceEvent(c, kind, name, sender) ==
    /\ WsOpen(c)
    /\ nMsgs < MaxClientMsgs
    /\ nMsgs' = nMsgs + 1
    /\ IF FindSpace(c, name) = NoSpace \/ userId[c] = 0
       THEN /\ calls' = calls \o << Event(kind, c, name, sender),
                                    Event("throw", c, name, sender) >>
            /\ SetSpaces(SpState)
       ELSE /\ calls' = Append(calls, Event(kind, c, name, sender))
            /\ SetSpaces(SpaceForwardMessageToSpaceBack(
                   SpState, FindSpace(c, name),
                   stampSender(kind, name, sender, userId[c])))
    /\ UNCHANGED <<rooms, roomObjs, pcJoin, joinLocal, backConnection, streamEvents,
                   backWritten, disconnecting, wsEnd, sent, userId, viewport,
                   gauge, pcTags, leftRoom, received>>
    /\ UNCHANGED <<leftSpaces, nJoinSpace, nPings, spaceUser, adminVars>>

\* ============================================================= space filters
\* The filters of the client messages: a name and a predicate.
Filters == {[filterName |-> "f1", filter |-> "p1"],
            [filterName |-> "f1", filter |-> "p2"],
            [filterName |-> "f2", filter |-> "p1"]}

\* An entry of calls made by a filter handler: the handler that starts (op
\* "addSpaceFilter" or "updateSpaceFilter", with the space name and the
\* filter of the message) or the call it makes on a Space (op
\* "handleAddFilter" or "handleUpdateFilter").
FilterCall(op, c, space, name, filter) ==
    [op |-> op, c |-> c, space |-> space, name |-> name, filter |-> filter]

\* The truth value of an array in a condition: arrays are objects, and an
\* empty one is true as well.
ArrayIsTruthy(list) ==
    TRUE

\* handleAddSpaceFilterMessage, l.1101-1114: the filter mirror of the client
\* and the calls made.  spacesFilter is the list of l.1108, [] when the
\* mirror has no entry for the space.
handleAddSpaceFilterMessage(c, name, newFilter) ==
    LET space == FindSpace(c, name)
        entry == spacesFilters[c][name]
        spacesFilter == IF entry.has THEN entry.list ELSE <<>>
    IN  IF space = NoSpace
        THEN [filters |-> spacesFilters, calls |-> <<>>]
        ELSE [filters |->
                  IF ~ArrayIsTruthy(spacesFilter)
                  THEN [spacesFilters EXCEPT ![c][name] =
                           [has |-> TRUE, list |-> Append(spacesFilter, newFilter)]]
                  ELSE spacesFilters,
              calls |-> <<FilterCall("handleAddFilter", c, space, name, newFilter)>>]

\* ---- handleAddSpaceFilterMessage called for a client message
HandleAddSpaceFilterMessage(c, name, newFilter) ==
    /\ WsOpen(c)
    /\ nMsgs < MaxClientMsgs
    /\ nMsgs' = nMsgs + 1
    /\ spacesFilters' = handleAddSpaceFilterMessage(c, name, newFilter).filters
    /\ calls' = Append(calls, FilterCall("addSpaceFilter", c, NoSpace, name, newFilter))
                    \o handleAddSpaceFilterMessage(c, name, newFilter).calls
    /\ UNCHANGED <<rooms, roomObjs, pcJoin, joinLocal, backConnection, streamEvents,
                   backWritten, disconnecting, wsEnd, sent, userId, viewport,
                   gauge, pcTags, leftRoom, received>>
    /\ UNCHANGED <<spaces, spaceObjs, spaceStreamsToBack, conns, clientSpaces,
                   leftSpaces, nJoinSpace, nPings, spaceUser, adminVars>>

\* spacesFilter.map((filter) => filter.filterName === newFilter.filterName
\* ? newFilter : filter), l.1129
ReplaceFilter(list, newFilter) ==
    [i \in DOMAIN list |->
        IF list[i].filterName = newFilter.filterName THEN newFilter ELSE list[i]]

\* handleUpdateSpaceFilterMessage, l.1116-1137: the filter mirror of the
\* client and the calls made.
handleUpdateSpaceFilterMessage(c, name, newFilter) ==
    LET space == FindSpace(c, name)
        entry == spacesFilters[c][name]
    IN  IF space = NoSpace
        THEN [filters |-> spacesFilters, calls |-> <<>>]
        ELSE [filters |->
                  IF entry.has
                  THEN [spacesFilters EXCEPT ![c][name].list =
                           ReplaceFilter(entry.list, newFilter)]
                  ELSE spacesFilters,
              calls |-> <<FilterCall("handleUpdateFilter", c, space, name, newFilter)>>]

\* ---- handleUpdateSpaceFilterMessage called for a client message
HandleUpdateSpaceFilterMessage(c, name, newFilter) ==
    /\ WsOpen(c)
    /\ nMsgs < MaxClientMsgs
    /\ nMsgs' = nMsgs + 1
    /\ spacesFilters' = handleUpdateSpaceFilterMessage(c, name, newFilter).filters
    /\ calls' = Append(calls, FilterCall("updateSpaceFilter", c, NoSpace, name, newFilter))
                    \o handleUpdateSpaceFilterMessage(c, name, newFilter).calls
    /\ UNCHANGED <<rooms, roomObjs, pcJoin, joinLocal, backConnection, streamEvents,
                   backWritten, disconnecting, wsEnd, sent, userId, viewport,
                   gauge, pcTags, leftRoom, received>>
    /\ UNCHANGED <<spaces, spaceObjs, spaceStreamsToBack, conns, clientSpaces,
                   leftSpaces, nJoinSpace, nPings, spaceUser, adminVars>>

\* ======================================================= moves and map edits
\* socketData.canEdit, fixed at upgrade: c1 may edit the map.
canEdit == [c \in Clients |-> c = "c1"]

\* The viewport of a UserMovesMessage: a viewport, or "undefined" when the
\* message has none.
MoveViewports == Viewports \cup {"undefined"}

\* An entry of calls made by handleUserMovesMessage or by
\* forwardAdminMessageToBack: the handler that starts (op "userMoves", with
\* the viewport of the message, or op "forwardAdminMessage") or the error it
\* throws.
Moved(op, c, v) ==
    [op |-> op, c |-> c, viewport |-> v]

handleUserMovesMessage_viewportFirst(c, v) ==
    LET set == IF v = "undefined"
               THEN [viewport |-> viewport, objs |-> roomObjs]
               ELSE handleViewport(roomObjs, c, v)
    IN  IF backConnection[c] = "undefined"
        THEN [backWritten |-> backWritten, viewport |-> set.viewport,
              objs |-> set.objs, threw |-> TRUE]
        ELSE [backWritten |-> [backWritten EXCEPT ![c] = Append(@, "userMovesMessage")],
              viewport |-> set.viewport, objs |-> set.objs,
              threw |-> v = "undefined"]

\* handleUserMovesMessage(client, userMovesMessage), l.604-625: the frames
\* written on the room stream, the viewport and the rooms after the call, and
\* whether it threw.
handleUserMovesMessage(c, v) ==
    IF backConnection[c] = "undefined"
    THEN [backWritten |-> backWritten, viewport |-> viewport, objs |-> roomObjs,
          threw |-> TRUE]
    ELSE LET written == [backWritten EXCEPT ![c] = Append(@, "userMovesMessage")]
         IN  IF v = "undefined"
             THEN [backWritten |-> written, viewport |-> viewport,
                   objs |-> roomObjs, threw |-> TRUE]
             ELSE [backWritten |-> written,
                   viewport |-> handleViewport(roomObjs, c, v).viewport,
                   objs |-> handleViewport(roomObjs, c, v).objs,
                   threw |-> FALSE]

\* ---- handleUserMovesMessage called for a client message
HandleUserMovesMessage(c, v) ==
    /\ WsOpen(c)
    /\ nMsgs < MaxClientMsgs
    /\ nMsgs' = nMsgs + 1
    /\ backWritten' = handleUserMovesMessage(c, v).backWritten
    /\ viewport' = handleUserMovesMessage(c, v).viewport
    /\ roomObjs' = handleUserMovesMessage(c, v).objs
    /\ calls' = Append(calls, Moved("userMoves", c, v))
                    \o (IF handleUserMovesMessage(c, v).threw
                        THEN <<Moved("throw", c, v)>> ELSE <<>>)
    /\ UNCHANGED <<rooms, pcJoin, joinLocal, backConnection, streamEvents,
                   disconnecting, wsEnd, sent, userId, gauge, pcTags, leftRoom,
                   received>>
    /\ UNCHANGED <<spaceVars, spaceUser, adminVars>>

forwardAdminMessageToBack_noCheck(c) ==
    IF backConnection[c] = "undefined"
    THEN [sent |-> sent, backWritten |-> backWritten, threw |-> TRUE]
    ELSE [sent |-> sent,
          backWritten |-> [backWritten EXCEPT ![c] = Append(@, "adminMessage")],
          threw |-> FALSE]

\* forwardAdminMessageToBack(client, message), l.1081-1099, with
\* forwardMessageToBack, l.1067-1079: the frames emitted to the client, the
\* frames written on the room stream, and whether it threw.
forwardAdminMessageToBack(c) ==
    IF ~canEdit[c]
    THEN [sent |-> [sent EXCEPT ![c] = Append(@, "errorMessage")],
          backWritten |-> backWritten, threw |-> FALSE]
    ELSE IF backConnection[c] = "undefined"
    THEN [sent |-> sent, backWritten |-> backWritten, threw |-> TRUE]
    ELSE [sent |-> sent,
          backWritten |-> [backWritten EXCEPT ![c] = Append(@, "adminMessage")],
          threw |-> FALSE]

\* ---- forwardAdminMessageToBack called for a map edit of the client
ForwardAdminMessageToBack(c) ==
    /\ WsOpen(c)
    /\ nMsgs < MaxClientMsgs
    /\ nMsgs' = nMsgs + 1
    /\ sent' = forwardAdminMessageToBack(c).sent
    /\ backWritten' = forwardAdminMessageToBack(c).backWritten
    /\ calls' = Append(calls, Moved("forwardAdminMessage", c, ""))
                    \o (IF forwardAdminMessageToBack(c).threw
                        THEN <<Moved("throw", c, "")>> ELSE <<>>)
    /\ UNCHANGED <<rooms, roomObjs, pcJoin, joinLocal, backConnection, streamEvents,
                   disconnecting, wsEnd, userId, viewport, gauge, pcTags,
                   leftRoom, received>>
    /\ UNCHANGED <<spaceVars, spaceUser, adminVars>>

\* ==================================================================== claims

Range(seq) == {seq[i] : i \in DOMAIN seq}

\* The PusherRoom objects constructed for a room URL.
RoomsCreatedFor(url) == {i \in DOMAIN roomObjs : roomObjs[i].roomUrl = url}

\* No handleJoinRoom call is suspended at an await.
RoomHandlersDone == \A c \in Clients : pcJoin[c] \notin {"awaitClient", "awaitInit"}

\* C1: when handleJoinRoom calls for the same roomId overlap, exactly one
\* PusherRoom is created for that URL and every one of the clients ends up in
\* the clients set of the room registered in rooms.  Stated for runs without
\* leaveRoom, where every completed join must find its client in the one room.
C1_ConcurrentJoinsOneRoom ==
    (\A d \in Clients : ~leftRoom[d]) =>
        \A c \in Clients :
            pcJoin[c] = "done" =>
                /\ Cardinality(RoomsCreatedFor(roomId[c])) = 1
                /\ rooms[roomId[c]] # NoRoom
                /\ c \in roomObjs[rooms[roomId[c]]].clients

\* C7: once every started handleJoinRoom has completed, no PusherRoom with an
\* empty clients set is registered in rooms.
C7_NoEmptyRoomRegistered ==
    RoomHandlersDone =>
        \A r \in RoomUrls :
            rooms[r] # NoRoom => roomObjs[rooms[r]].clients # {}

\* A room was emptied by a leave, closed and unregistered; all handlers done.
C7_Witness ==
    /\ RoomHandlersDone
    /\ \E i \in DOMAIN roomObjs :
           /\ roomObjs[i].closed
           /\ roomObjs[i].clients = {}
           /\ rooms[roomObjs[i].roomUrl] = NoRoom

\* C9: disconnecting, once true, stays true, and no step sends a frame to a
\* client whose disconnecting flag is true.
C9_StickyAndGatesSends ==
    [][\A c \in Clients :
          disconnecting[c] => (disconnecting'[c] /\ sent'[c] = sent[c])]_vars

\* C10: on "end" or "error" of the room stream, a client that is not
\* disconnecting gets the flag set and its WebSocket closed with 1011; a
\* client that is already disconnecting is not closed again; so the WebSocket
\* is closed at most once, and once for an error followed by an end.
C10_CloseOnStreamLoss ==
    /\ [](\A c \in Clients : Len(wsEnd[c]) <= 1)
    /\ [][\A c \in Clients :
             streamEvents'[c] # streamEvents[c] =>
                 IF disconnecting[c]
                 THEN wsEnd'[c] = wsEnd[c] /\ disconnecting'[c]
                 ELSE wsEnd'[c] = Append(wsEnd[c], CloseCode) /\ disconnecting'[c]]_vars

\* The stream emitted error then end, and the WebSocket was closed once.
C10_Witness ==
    \E c \in Clients :
        streamEvents[c] = <<"error", "end">> /\ wsEnd[c] = <<CloseCode>>

\* The stream promises created for backId b: one per getSpaceClient call.
ConnsCreatedFor(b) == {e \in DOMAIN conns : conns[e].backId = b}

\* The space names of the handleJoinSpace calls suspended on promise e.
WaitingNames(e) ==
    {conns[e].waiters[i].name :
        i \in {j \in DOMAIN conns[e].waiters : conns[e].waiters[j].kind = "join"}}

\* How many joinSpaceMessage frames for space n have been written on frames.
JoinFrames(frames, n) ==
    Cardinality({i \in DOMAIN frames :
                    frames[i].case = "joinSpaceMessage" /\ frames[i].spaceName = n})

\* No handleJoinSpace call is suspended at its await.
SpaceHandlersDone == \A e \in DOMAIN conns : WaitingNames(e) = {}

C4_EverySpaceHasStream ==
    \A n \in SpaceNames :
        spaces[n] # NoSpace =>
            spaceStreamsToBack[spaceObjs[spaces[n]].backId] # NoStream

\* C5: for every client c and every space s in c's socketData.spaces list,
\* c is a watcher of s.
C5_ListedSpacesAreWatched ==
    \A c \in Clients :
        \A o \in Range(clientSpaces[c]) : c \in spaceObjs[o].watchers

\* A client still lists a space, after another client has left its spaces
\* and after the space was evicted by the end of its stream.
C5_Witness ==
    \E c, d \in Clients :
        /\ c # d
        /\ leftSpaces[d]
        /\ \E o \in Range(clientSpaces[c]) : spaces[spaceObjs[o].name] # o

\* C6: for every space s registered in spaces and every watcher c of s, s is
\* in c's socketData.spaces list; no state separates the two half-links.
C6_WatchersListTheSpace ==
    \A n \in SpaceNames :
        spaces[n] # NoSpace =>
            \A c \in spaceObjs[spaces[n]].watchers :
                spaces[n] \in Range(clientSpaces[c])

\* A registered space watched by two clients.
C6_Witness ==
    \E n \in SpaceNames :
        /\ spaces[n] # NoSpace
        /\ Cardinality(spaceObjs[spaces[n]].watchers) = 2

\* C8: once every started handleJoinSpace has completed, no Space with an
\* empty watcher set is registered in spaces.
C8_NoEmptySpaceRegistered ==
    SpaceHandlersDone =>
        \A n \in SpaceNames :
            spaces[n] # NoSpace => spaceObjs[spaces[n]].watchers # {}

\* A space was emptied by a leave and is no longer registered.
C8_Witness ==
    /\ SpaceHandlersDone
    /\ \E o \in DOMAIN spaceObjs :
           /\ spaceObjs[o].watchers = {}
           /\ spaces[spaceObjs[o].name] = NoSpace

\* The stream of promise e emits "end" or "error" in this step.
StreamLost(e) ==
    \/ conns[e].alive /\ ~conns'[e].alive
    \/ ~conns[e].errored /\ conns'[e].errored

\* The registered spaces that were constructed on stream e.
SpacesUsing(e) ==
    {n \in SpaceNames : spaces[n] # NoSpace /\ spaceObjs[spaces[n]].conn = e}

\* C11: when a shared space back-stream emits "end" or "error", its ping
\* watchdog is cleared, its entry is removed from spaceStreamsToBack and every
\* Space of its backId is removed from spaces.
C11_StreamLossCleansUp ==
    [][\A e \in DOMAIN conns :
          StreamLost(e) =>
              /\ conns'[e].timers = 0
              /\ spaceStreamsToBack'[conns[e].backId] # e
              /\ SpacesOnBack(SpState', conns[e].backId) = {}]_vars

\* A watchdog of stream e expires in this step.
WatchdogExpires(e) ==
    /\ conns'[e].timers < conns[e].timers
    /\ conns'[e].alive = conns[e].alive
    /\ conns'[e].pings = conns[e].pings

\* C12: a client is in a space and no pingMessage arrives on the space's
\* stream for 60 seconds, even when none has arrived since the stream was
\* created: the stream is ended, the space removed and the entry cleared.
\* The 60 seconds are those of a timer, so a watchdog is armed on every live
\* stream that a registered space uses, and its expiry ends the stream,
\* clears the entry and removes the spaces.
C12_WatchdogEvictsSilentStream ==
    /\ [](\A e \in DOMAIN conns :
             (conns[e].state = "open" /\ conns[e].alive /\ ~conns[e].ended
                 /\ SpacesUsing(e) # {})
             => conns[e].timers > 0)
    /\ [][\A e \in DOMAIN conns :
             WatchdogExpires(e) =>
                 /\ conns'[e].ended
                 /\ spaceStreamsToBack'[conns[e].backId] = NoStream
                 /\ SpacesOnBack(SpState', conns[e].backId) = {}]_vars

\* How many pongMessage frames have been written on stream e.
Pongs(e) ==
    Cardinality({i \in DOMAIN conns[e].written :
                    conns[e].written[i].case = "pongMessage"})

\* C13: every pingMessage received on a stream is answered by one
\* pongMessage written on that stream, cancels the armed watchdog and arms a
\* new one; at most one watchdog is armed per stream.
C13_PingPongOneWatchdog ==
    /\ [](\A e \in DOMAIN conns :
             Pongs(e) = conns[e].pings /\ conns[e].timers <= 1)
    /\ [][\A e \in DOMAIN conns :
             conns'[e].pings # conns[e].pings =>
                 /\ conns'[e].written =
                        Append(conns[e].written, Frame("pongMessage", "", ""))
                 /\ conns'[e].pingTimeout
                 /\ conns'[e].timers = 1]_vars

\* A second ping arrived while the watchdog of the first was armed.
C13_Witness ==
    \E e \in DOMAIN conns :
        conns[e].pings = 2 /\ Pongs(e) = 2 /\ conns[e].timers = 1 /\ conns[e].alive
            /\ ~conns[e].ended

\* The frames of a sequence that are frames with a message.
NonEmptyFrames(frames) ==
    SelectSeq(frames, LAMBDA f : f # "empty")

\* The frames sent to a client that come from its room stream.
SentFromStream(c) ==
    SelectSeq(sent[c], LAMBDA f : f \in RoomFrames)

\* C14: for a client that is not disconnecting, every non-empty frame read
\* from its room stream, the snooped ones included, is sent to it exactly
\* once, and the frames are sent in the order the stream delivered them.
C14_RoomFramesForwardedInOrder ==
    /\ [](\A c \in Clients :
             ~disconnecting[c] => SentFromStream(c) = NonEmptyFrames(received[c]))
    /\ [][\A c \in Clients :
             (received'[c] # received[c] /\ ~disconnecting[c]) =>
                 sent'[c] = sent[c] \o NonEmptyFrames(
                                SubSeq(received'[c], Len(received[c]) + 1,
                                       Len(received'[c])))]_vars

\* The two snooped frames were read and forwarded, in their order.
C14_Witness ==
    \E c \in Clients :
        /\ ~disconnecting[c]
        /\ received[c] = <<"roomJoinedMessage", "refreshRoomMessage">>
        /\ SentFromStream(c) = received[c]

\* The mask the claim gives for a message: availabilityStatus iff the value
\* differs from the spaceUser's and is not 0, chatID iff it differs and is
\* not empty.
ClaimedMask(user, msg) ==
    (IF msg.availabilityStatus # user.availabilityStatus /\ msg.availabilityStatus # 0
     THEN <<"availabilityStatus">> ELSE <<>>)
    \o (IF msg.chatID # user.chatID /\ msg.chatID # ""
        THEN <<"chatID">> ELSE <<>>)

\* The updateUser calls the claim gives for a message of client c: none on
\* an empty mask, else one on each space of c's list, with the mask.
ClaimedUpdates(c, msg) ==
    IF ClaimedMask(spaceUser[c], msg) = <<>>
    THEN <<>>
    ELSE [i \in 1..Len(clientSpaces[c]) |->
             Call("updateUser", c, clientSpaces[c][i],
                  ClaimedMask(spaceUser[c], msg), msg)]

\* This step is a call of handleSetPlayerDetails.
SetPlayerDetailsStep ==
    /\ Len(calls') > Len(calls)
    /\ calls'[Len(calls) + 1].op = "setPlayerDetails"

\* The calls the handler of this step makes.
StepCalls == SubSeq(calls', Len(calls) + 2, Len(calls'))

\* C15: handleSetPlayerDetails calls updateUser on each space of the
\* client's list iff the diff is not empty, with exactly the changed allowed
\* fields as mask; no space is updated on an empty diff.  A call for a client
\* without back connection is aborted by the error forwardMessageToBack
\* throws, and updates no space.
C15_UpdatesIffDiff ==
    [][SetPlayerDetailsStep =>
          LET inv == calls'[Len(calls) + 1]
          IN  IF backConnection[inv.c] # "undefined"
              THEN StepCalls = ClaimedUpdates(inv.c, inv.user)
              ELSE StepCalls = <<Call("throw", inv.c, NoSpace, <<>>, NoUser)>>]_vars

\* A client in two spaces changed its chatID only: both spaces were updated
\* with the mask ["chatID"].
C15_Witness ==
    \E i \in DOMAIN calls :
        /\ calls[i].op = "setPlayerDetails"
        /\ i + 2 \in DOMAIN calls
        /\ calls[i + 1].op = "updateUser" /\ calls[i + 1].mask = <<"chatID">>
        /\ calls[i + 2].op = "updateUser" /\ calls[i + 2].mask = <<"chatID">>
        /\ calls[i + 1].space # calls[i + 2].space

\* C16: when the creation of the shared stream of a backId fails, the entry
\* of that backId is removed from spaceStreamsToBack, so that the next
\* handleJoinSpace creates the stream again: no rejected promise is stored.
C16_FailedStreamEntryRemoved ==
    \A b \in BackIds :
        spaceStreamsToBack[b] # NoStream =>
            conns[spaceStreamsToBack[b]].state # "rejected"

\* A leave of this step empties the space registered under name n.
LeaveEmpties(n) ==
    /\ spaces[n] # NoSpace
    /\ spaceObjs[spaces[n]].watchers # {}
    /\ spaceObjs'[spaces[n]].watchers = {}

\* C17: when a leave empties a space, the shared stream of its backId is
\* ended and its entry removed iff no other space of that backId remains in
\* spaces; while another one remains the stream is neither ended nor removed.
C17_StreamDisposedIffLastSpace ==
    [][\A n \in SpaceNames :
          LeaveEmpties(n) =>
              LET b == spaceObjs[spaces[n]].backId
                  e == spaceObjs[spaces[n]].conn
              IN  IF SpacesOnBack(SpState', b) = {}
                  THEN /\ spaceStreamsToBack'[b] = NoStream
                       /\ conns'[e].ended
                  ELSE /\ spaceStreamsToBack'[b] = spaceStreamsToBack[b]
                       /\ conns'[e].ended = conns[e].ended]_vars

\* The clients of a room URL that have joined and not left.
Members(url) ==
    {c \in Clients : roomId[c] = url /\ pcJoin[c] = "done" /\ ~leftRoom[c]}

\* How many joinRoomMessage frames have been written on c's room stream.
JoinRoomMessages(c) ==
    Cardinality({i \in DOMAIN backWritten[c] : backWritten[c][i] = "joinRoomMessage"})

ServiceOps ==
    {"banUserByUuid", "ban", "sendAdminMessageToRoom", "getUrlRoomsFromSameWorld"}

\* This step is a call of handler op for client c.
AdminHandlerStep(op, c) ==
    /\ Len(adminCalls') > Len(adminCalls)
    /\ adminCalls'[Len(adminCalls) + 1].op = op
    /\ adminCalls'[Len(adminCalls) + 1].c = c

\* C19: for a client without the "admin" tag, handleBanPlayerMessage returns
\* without calling banUserByUuid or the ban RPC and without an error, and
\* emitPlayGlobalMessage throws without calling sendAdminMessageToRoom or
\* the admin service.
C19_NonAdminRejected ==
    /\ [](\A i \in DOMAIN adminCalls :
             "admin" \notin tags[adminCalls[i].c] => adminCalls[i].op \notin ServiceOps)
    /\ [][\A c \in Clients :
             "admin" \notin tags[c] =>
                 /\ AdminHandlerStep("handleBanPlayerMessage", c) =>
                        /\ Len(adminCalls') = Len(adminCalls) + 1
                        /\ pcAdmin' = pcAdmin
                 /\ AdminHandlerStep("emitPlayGlobalMessage", c) =>
                        /\ Len(adminCalls') = Len(adminCalls) + 2
                        /\ adminCalls'[Len(adminCalls) + 2] =
                               AdminCall("throw", c, "", "", "")
                        /\ pcAdmin' = pcAdmin]_vars

\* A client that is not an admin has sent a ban and a global message.
C19_Witness ==
    \E i, j \in DOMAIN adminCalls :
        /\ "admin" \notin tags[adminCalls[i].c]
        /\ adminCalls[j].c = adminCalls[i].c
        /\ adminCalls[i].op = "handleBanPlayerMessage"
        /\ adminCalls[j].op = "emitPlayGlobalMessage"

\* The calls with operation op that client c has made since its running
\* emitPlayGlobalMessage was called.
GlobalCalls(c, op) ==
    SelectSeq(SubSeq(adminCalls, pcAdmin[c].from + 1, Len(adminCalls)),
              LAMBDA x : x.c = c /\ x.op = op)

\* The sendAdminMessageToRoom calls the claim gives for the rooms: one for
\* each, in order, with the content and type of the message.
ClaimedSends(c, msg, urls) ==
    [i \in 1..Len(urls) |->
        AdminCall("sendAdminMessageToRoom", c, urls[i], msg.content, msg.type)]

\* C20: for an admin, emitPlayGlobalMessage with broadcastToWorld calls
\* sendAdminMessageToRoom once for each room URL the admin service returned,
\* in that order, with the content and type of the message; without
\* broadcastToWorld it calls it once, for the client's room, and does not
\* query the admin service.  While the call runs (or when an await of it
\* has failed) the calls made are the first ones of that list.
C20_GlobalMessageOncePerRoom ==
    \A c \in Clients :
        ("admin" \in tags[c] /\ pcAdmin[c].global # "idle") =>
            LET op == pcAdmin[c]
                sends == GlobalCalls(c, "sendAdminMessageToRoom")
                claimed == ClaimedSends(c, op.msg, op.tabUrlRooms)
            IN  /\ Len(sends) <= Len(claimed)
                /\ sends = SubSeq(claimed, 1, Len(sends))
                /\ op.global = "done" => sends = claimed
                /\ IF op.msg.broadcastToWorld
                   THEN Len(GlobalCalls(c, "getUrlRoomsFromSameWorld")) = 1
                   ELSE /\ GlobalCalls(c, "getUrlRoomsFromSameWorld") = <<>>
                        /\ op.tabUrlRooms = <<roomId[c]>>

\* A broadcast to a world of two rooms has completed.
C20_Witness ==
    \E c \in Clients :
        /\ pcAdmin[c].global = "done"
        /\ pcAdmin[c].msg.broadcastToWorld
        /\ pcAdmin[c].tabUrlRooms = <<"r2", "r1">>
        /\ Len(GlobalCalls(c, "sendAdminMessageToRoom")) = 2

\* This step is a call of handlePublicEvent or handlePrivateEvent.
SpaceEventStep ==
    /\ Len(calls') > Len(calls)
    /\ calls'[Len(calls) + 1].op \in EventKinds

\* The Spaces of client c's socketData.spaces list that have name n.
ListedSpaces(c, n) ==
    {o \in Range(clientSpaces[c]) : spaceObjs[o].name = n}

\* C21: handlePublicEvent and handlePrivateEvent forward the event to the
\* back-stream of the named space only if that space is in the client's
\* socketData.spaces list and the client's userId is set, and the forwarded
\* event carries the client's userId as senderUserId whatever the message
\* said; otherwise they throw and nothing is written on any space stream.
C21_EventsForwardedWithOwnSender ==
    [][SpaceEventStep =>
          LET inv == calls'[Len(calls) + 1]
          IN  IF ListedSpaces(inv.c, inv.name) # {} /\ userId[inv.c] # 0
              THEN /\ Len(calls') = Len(calls) + 1
                   /\ \E o \in ListedSpaces(inv.c, inv.name) :
                          conns' = [conns EXCEPT ![spaceObjs[o].conn].written =
                                       Append(@, Frame(inv.op, inv.name, userId[inv.c]))]
              ELSE /\ conns' = conns
                   /\ Len(calls') = Len(calls) + 2
                   /\ calls'[Len(calls) + 2].op = "throw"]_vars

\* A client with a userId sent an event naming another sender to a space of
\* its list, and an event to a space that is not in its list.
C21_Witness ==
    \E i, j \in DOMAIN calls :
        /\ calls[i].op \in EventKinds /\ calls[j].op = "throw"
        /\ calls[i].sender # userId[calls[i].c]
        /\ userId[calls[i].c] # 0
        /\ \E e \in DOMAIN conns :
               Frame(calls[i].op, calls[i].name, userId[calls[i].c])
                   \in Range(conns[e].written)

\* This step is a call of the handler that logs op.
HandlerStep(op) ==
    /\ Len(calls') > Len(calls)
    /\ calls'[Len(calls) + 1].op = op

\* The handler of this step threw.
StepThrew ==
    /\ Len(calls') = Len(calls) + 2
    /\ calls'[Len(calls) + 2].op = "throw"

\* C22: forwardAdminMessageToBack for a client without canEdit emits one
\* errorMessage frame to that client and writes nothing on its room stream;
\* for a client with canEdit it writes the message on the room stream and
\* emits no errorMessage.  A call for a client with canEdit and without back
\* connection is aborted by the error forwardMessageToBack throws.
C22_EditNeedsCanEdit ==
    [][HandlerStep("forwardAdminMessage") =>
          LET c == calls'[Len(calls) + 1].c
          IN  IF ~canEdit[c]
              THEN /\ sent' = [sent EXCEPT ![c] = Append(@, "errorMessage")]
                   /\ backWritten' = backWritten
                   /\ ~StepThrew
              ELSE IF backConnection[c] # "undefined"
              THEN /\ backWritten' = [backWritten EXCEPT ![c] = Append(@, "adminMessage")]
                   /\ sent' = sent
                   /\ ~StepThrew
              ELSE /\ backWritten' = backWritten
                   /\ sent' = sent
                   /\ StepThrew]_vars

\* A client without canEdit got its errorMessage, and a client with canEdit
\* had its message written on its room stream.
C22_Witness ==
    \E c, d \in Clients :
        /\ ~canEdit[c] /\ sent[c] = <<"errorMessage">> /\ backWritten[c] = <<>>
        /\ canEdit[d] /\ "adminMessage" \in Range(backWritten[d])
        /\ "errorMessage" \notin Range(sent[d])

\* C27: when a roomJoinedMessage arrives on a client's room stream,
\* currentUserId is stored as the client's userId (and spaceUser.id), and the
\* viewport re-issued through handleViewport is the client's viewport of that
\* moment: a viewport set after handleJoinRoom started is not replaced by the
\* older one.
C27_RoomJoinedReissuesCurrentViewport ==
    [][\A c \in Clients :
          received'[c] = Append(received[c], "roomJoinedMessage") =>
              /\ userId'[c] # 0
              /\ viewport'[c] = viewport[c]]_vars

\* C28: handleUserMovesMessage for a client without backConnection throws,
\* writes on no stream and leaves the viewport; otherwise it writes one
\* userMovesMessage on the client's room stream and sets socketData.viewport
\* to the viewport of the message; when the message has no viewport it
\* throws after the frame was written and leaves the viewport.
C28_UserMovesForwardThenViewport ==
    [][HandlerStep("userMoves") =>
          LET c == calls'[Len(calls) + 1].c
              v == calls'[Len(calls) + 1].viewport
          IN  IF backConnection[c] = "undefined"
              THEN /\ StepThrew
                   /\ backWritten' = backWritten
                   /\ conns' = conns
                   /\ viewport' = viewport
              ELSE /\ backWritten' =
                          [backWritten EXCEPT ![c] = Append(@, "userMovesMessage")]
                   /\ conns' = conns
                   /\ IF v = "undefined"
                      THEN StepThrew /\ viewport' = viewport
                      ELSE ~StepThrew /\ viewport' = [viewport EXCEPT ![c] = v]]_vars

\* A move without viewport was forwarded and threw, and a move with a new
\* viewport was forwarded and set it.
C28_Witness ==
    \E i, j \in DOMAIN calls :
        /\ calls[i].op = "userMoves" /\ calls[i].viewport = "undefined"
        /\ calls[i + 1].op = "throw"
        /\ calls[j].op = "userMoves" /\ calls[j].viewport = "v2"
        /\ i < j
        /\ viewport[calls[j].c] = "v2"
        /\ backWritten[calls[j].c] =
               <<"joinRoomMessage", "userMovesMessage", "userMovesMessage">>

\* Stream e reads an updateSpaceMetadataMessage in this step.
MetadataStep(e) ==
    conns'[e].metadataRead = conns[e].metadataRead + 1

\* Metadata text is valid: it is parseable JSON and the JSON is an object.
ValidMetadata(text) ==
    ~JSONParse(text).threw /\ JSONParse(text).kind = "object"

\* C23: an updateSpaceMetadataMessage whose metadata is not parseable JSON,
\* or is JSON that is not a string-keyed object, is dropped: the metadata of
\* every space is unchanged and no exception leaves the "data" handler of
\* the stream.
C23_InvalidMetadataDropped ==
    [][\A e \in DOMAIN conns :
          (MetadataStep(e) /\ ~ValidMetadata(conns'[e].lastMetadata))
          => /\ \A o \in DOMAIN spaceObjs :
                    spaceObjs'[o].metadata = spaceObjs[o].metadata
             /\ conns'[e].thrown = conns[e].thrown]_vars

\* The filters named fname in the mirror of client c for space n.
MirrorFilters(F, c, n, fname) ==
    {i \in DOMAIN F[c][n].list : F[c][n].list[i].filterName = fname}

\* C24: after handleAddSpaceFilterMessage for a space the client has joined,
\* the client's mirror spacesFilters[spaceName] contains the added filter and
\* has exactly one filter of that name.
C24_AddFilterMirrored ==
    [][HandlerStep("addSpaceFilter") =>
          LET inv == calls'[Len(calls) + 1]
          IN  ListedSpaces(inv.c, inv.name) # {} =>
                  /\ spacesFilters'[inv.c][inv.name].has
                  /\ inv.filter \in Range(spacesFilters'[inv.c][inv.name].list)
                  /\ Cardinality(MirrorFilters(spacesFilters', inv.c, inv.name,
                                               inv.filter.filterName)) = 1]_vars

\* C25: handleUpdateSpaceFilterMessage replaces the filter of the same name
\* in the client's mirror and leaves the others; when the mirror has no
\* filter of that name for the space, the update is dropped: the mirror is
\* unchanged and Space.handleUpdateFilter is not called.
C25_UpdateFilterNeedsName ==
    [][HandlerStep("updateSpaceFilter") =>
          LET inv == calls'[Len(calls) + 1]
              old == spacesFilters[inv.c][inv.name].list
          IN  IF MirrorFilters(spacesFilters, inv.c, inv.name, inv.filter.filterName) # {}
              THEN spacesFilters' =
                       [spacesFilters EXCEPT ![inv.c][inv.name].list =
                           [i \in DOMAIN old |->
                               IF old[i].filterName = inv.filter.filterName
                               THEN inv.filter ELSE old[i]]]
              ELSE /\ spacesFilters' = spacesFilters
                   /\ Len(calls') = Len(calls) + 1]_vars

\* The PusherRoom objects, registered or not, that are not closed and have
\* client c in their clients set.
RoomsHolding(c) ==
    {i \in DOMAIN roomObjs : ~roomObjs[i].closed /\ c \in roomObjs[i].clients}

C29_LeaveSpacesFrame ==
    [][\A c \in Clients :
          (~leftSpaces[c] /\ leftSpaces'[c]) =>
              /\ clientSpaces'[c] = <<>>
              /\ \A n \in SpaceNames : ~spacesFilters'[c][n].has
              /\ \A o \in DOMAIN spaceObjs :
                     IF o \in Range(clientSpaces[c])
                     THEN /\ c \notin spaceObjs'[o].watchers
                          /\ spaceObjs'[o].watchers = {} =>
                                 spaces'[spaceObjs[o].name] = NoSpace
                     ELSE spaceObjs'[o].watchers = spaceObjs[o].watchers]_vars

\* A client has left its spaces: a space it emptied is unregistered, and a
\* space of another client is registered with that client as its watcher.
C29_Witness ==
    \E c, d \in Clients :
        /\ c # d
        /\ leftSpaces[c] /\ ~leftSpaces[d]
        /\ nJoinSpace = 2
        /\ clientSpaces[c] = <<>>
        /\ \E o, q \in DOMAIN spaceObjs :
               /\ spaceObjs[o].watchers = {}
               /\ spaces[spaceObjs[o].name] = NoSpace
               /\ spaceObjs[q].watchers = {d}
               /\ spaces[spaceObjs[q].name] = q

MetadataFrames(frames) ==
    Cardinality({i \in DOMAIN frames : frames[i].case = "updateSpaceMetadataMessage"})

MetadataWaiters(ws) ==
    Cardinality({i \in DOMAIN ws : ws[i].kind = "metadata"})

MergedMetadata(old, value) ==
    [k |-> IF value.k # 0 THEN value.k ELSE old.k,
     j |-> IF value.j # 0 THEN value.j ELSE old.j]

\* C31: handleUpdateSpaceMetadata with no stream registered for the backId
\* of the space changes no space and writes nothing; with a stream
\* registered, the keys of the update are merged into the registered space
\* (the other keys keep their values) and exactly one
\* updateSpaceMetadataMessage carrying the update is written to the
\* registered stream: in the step of the call, or, for a stream still being
\* created, in the step that settles its creation, one frame for each
\* suspended call.
C31_UpdateSpaceMetadata ==
    [][/\ HandlerStep("updateSpaceMetadata") =>
            LET m == calls'[Len(calls) + 1]
                e == spaceStreamsToBack[getIndex[m.name]]
                o == spaces[m.name]
            IN  IF e = NoStream
                THEN spaceObjs' = spaceObjs /\ conns' = conns
                ELSE /\ o # NoSpace =>
                            spaceObjs'[o].metadata =
                                MergedMetadata(spaceObjs[o].metadata, m.value)
                     /\ \A q \in DOMAIN spaceObjs :
                            q # o => spaceObjs'[q] = spaceObjs[q]
                     /\ IF conns[e].state = "pending"
                        THEN /\ conns'[e].written = conns[e].written
                             /\ MetadataWaiters(conns'[e].waiters)
                                    = MetadataWaiters(conns[e].waiters) + 1
                        ELSE conns'[e].written =
                                 Append(conns[e].written,
                                        Frame("updateSpaceMetadataMessage", m.name,
                                              JSONStringify(m.value)))
       /\ \A e \in DOMAIN conns :
            conns[e].state = "pending" /\ conns'[e].state # "pending" =>
                MetadataFrames(conns'[e].written)
                    = MetadataFrames(conns[e].written)
                        + MetadataWaiters(conns[e].waiters)]_vars

\* Stream e terminates in this step: it emits "end" or one of its
\* watchdogs expires.
StreamTerminates(e) ==
    \/ conns[e].alive /\ ~conns'[e].alive
    \/ WatchdogExpires(e)

\* C32: the end event or a watchdog expiry of a stream that is no longer
\* registered in spaceStreamsToBack leaves the map of streams and the map of
\* spaces as they are, so the newer stream of the same backId and its spaces
\* stay; and every created stream that is not in the map has been ended or
\* has ended.
C32_StaleTerminationKeepsNewerStream ==
    /\ [][\A e \in DOMAIN conns :
             (StreamTerminates(e) /\ spaceStreamsToBack[conns[e].backId] # e)
             => /\ spaceStreamsToBack' = spaceStreamsToBack
                /\ spaces' = spaces]_vars
    /\ [](\A e \in DOMAIN conns :
             (conns[e].state = "open" /\ spaceStreamsToBack[conns[e].backId] # e)
             => (conns[e].ended \/ ~conns[e].alive))

\* C33: a watchdog is armed only for a stream that is registered in
\* spaceStreamsToBack; a stream that deleteSpaceIfEmpty has ended and removed
\* from the map has no watchdog armed.
C33_WatchdogOnlyOnRegisteredStream ==
    \A e \in DOMAIN conns :
        conns[e].timers > 0 => spaceStreamsToBack[conns[e].backId] = e

\* Client c has been torn down and none of its joins is suspended.
TornDownAndDone(c) ==
    /\ leftRoom[c] /\ leftSpaces[c]
    /\ pcJoin[c] \notin {"awaitClient", "awaitInit"}
    /\ \A e \in DOMAIN conns : \A i \in DOMAIN conns[e].waiters :
          conns[e].waiters[i].kind = "join" => conns[e].waiters[i].c # c

\* C34: once a client has been torn down and all its handlers have
\* completed, it is in no PusherRoom, watches no Space and its list of spaces
\* is empty, also when a join was suspended during the teardown.
C34_NoRegistrationAfterTeardown ==
    \A c \in Clients :
        TornDownAndDone(c) =>
            /\ RoomsHolding(c) = {}
            /\ \A o \in DOMAIN spaceObjs : c \notin spaceObjs[o].watchers
            /\ clientSpaces[c] = <<>>

\* The emitClientJoin events emitted so far for client c: one by the
\* handleJoinRoom that got its back-end client.
EmittedJoins(c) ==
    IF pcJoin[c] \in {"awaitInit", "done"} THEN 1 ELSE 0

\* The emitClientLeave events emitted so far for client c: one by leaveRoom.
EmittedLeaves(c) ==
    IF leftRoom[c] THEN 1 ELSE 0

\* C35: for every client, the emitClientLeave events never outnumber the
\* emitClientJoin events, so that the gauge of a room is never negative, and
\* the two numbers are equal once the client has left and its handleJoinRoom
\* has completed, also when handleJoinRoom failed or was still waiting for
\* the back-end client when leaveRoom ran.
C35_LeavesNeverExceedJoins ==
    /\ \A c \in Clients : EmittedLeaves(c) <= EmittedJoins(c)
    /\ \A r \in RoomUrls : gauge[r] >= 0
    /\ \A c \in Clients :
          (leftRoom[c] /\ pcJoin[c] \notin {"awaitClient", "awaitInit"})
          => EmittedLeaves(c) = EmittedJoins(c)

\* C36: every Space in a client's list of spaces is the Space registered in
\* spaces under its name, and the list holds no two entries with the same
\* space name.
C36_ListedSpacesAreRegistered ==
    \A c \in Clients :
        /\ \A i \in DOMAIN clientSpaces[c] :
              spaces[spaceObjs[clientSpaces[c][i]].name] = clientSpaces[c][i]
        /\ \A i, k \in DOMAIN clientSpaces[c] :
              i # k => spaceObjs[clientSpaces[c][i]].name
                          # spaceObjs[clientSpaces[c][k]].name

\* The clients whose handleJoinSpace for name n is suspended on promise e.
WaitingClients(e, n) ==
    {conns[e].waiters[i].c :
        i \in {k \in DOMAIN conns[e].waiters :
                  conns[e].waiters[k].kind = "join" /\ conns[e].waiters[k].name = n}}

\* C37: handleJoinSpace calls of two different clients for the same space
\* name overlap when both are suspended on the promise of the stream.  In the
\* step that fulfils the promise exactly one Space is created for the name,
\* it is the registered one, exactly one joinSpaceMessage for the name is on
\* the stream, every waiting client is a watcher of the Space, and the
\* joinSpaceMessage precedes every addSpaceUserMessage of the name.
C37_OverlappingJoinsShareOneSpace ==
    [][\A e \in DOMAIN conns : \A n \in SpaceNames :
          (/\ conns[e].state = "pending" /\ conns'[e].state = "open"
           /\ Cardinality(WaitingClients(e, n)) >= 2)
          => /\ Cardinality({q \in DOMAIN spaceObjs' \ DOMAIN spaceObjs :
                                spaceObjs'[q].name = n}) = 1
             /\ spaces'[n] \in DOMAIN spaceObjs' \ DOMAIN spaceObjs
             /\ spaceObjs'[spaces'[n]].conn = e
             /\ JoinFrames(conns'[e].written, n) = 1
             /\ WaitingClients(e, n) \subseteq spaceObjs'[spaces'[n]].watchers
             /\ \A i, k \in DOMAIN conns'[e].written :
                   (/\ conns'[e].written[i].case = "joinSpaceMessage"
                    /\ conns'[e].written[i].spaceName = n
                    /\ conns'[e].written[k].case = "addSpaceUserMessage"
                    /\ conns'[e].written[k].spaceName = n)
                   => i < k]_vars

\* Two clients joined the same space, both after waiting for its stream.
C37_Witness ==
    \E e \in DOMAIN conns :
        /\ conns[e].state = "open" /\ conns[e].resumed = 2
        /\ spaces["s1"] # NoSpace
        /\ spaceObjs[spaces["s1"]].conn = e
        /\ spaceObjs[spaces["s1"]].watchers = {"c1", "c2"}
        /\ clientSpaces["c1"] = <<spaces["s1"]>>
        /\ clientSpaces["c2"] = <<spaces["s1"]>>
        /\ JoinFrames(conns[e].written, "s1") = 1

\* C38: handleUpdateSpaceUser for a space name that the client's list of
\* spaces does not hold throws, calls updateUser on no space and leaves the
\* client's spaceUser as it was.  The updates name the space s1.
C38_UpdateUnknownSpaceUserNoEffect ==
    [][HandlerStep("updateSpaceUser") =>
          LET m == calls'[Len(calls) + 1]
          IN  ListedSpaces(m.c, "s1") = {}
              => /\ StepThrew
                 /\ \A i \in (Len(calls) + 1)..Len(calls') :
                       calls'[i].op # "updateUser"
                 /\ spaceUser' = spaceUser]_vars

\* C39: a client changes a space only if its list of spaces holds that
\* space.  handleUpdateSpaceMetadata called by a client whose list does not
\* hold a space of the given name changes no space; and a client leaves the
\* watchers or the users of a space only if its list holds the space, so
\* that handleLeaveSpace of a client that has not joined changes neither.
C39_OnlyMembersChangeSpace ==
    [][/\ HandlerStep("updateSpaceMetadata") =>
            LET m == calls'[Len(calls) + 1]
            IN  ListedSpaces(m.c, m.name) = {} => spaceObjs' = spaceObjs
       /\ \A o \in DOMAIN spaceObjs : \A c \in Clients :
            (\/ c \in spaceObjs[o].watchers \ spaceObjs'[o].watchers
             \/ c \in spaceObjs[o].users \ spaceObjs'[o].users)
            => o \in Range(clientSpaces[c])]_vars

\* Joins and leaves of rooms.
NextRoom ==
    \/ \E c \in Clients : HandleJoinRoom(c)
    \/ \E c \in Clients : JoinRoomClientFailed(c)
    \/ \E c \in Clients : JoinRoomGotClient(c)
    \/ \E c \in Clients : JoinRoomInitDone(c)
    \/ \E c \in Clients : LeaveRoom(c)

SpecRoom == Init /\ [][NextRoom]_vars

\* Joins and leaves of rooms that do not overlap: a handler is called only
\* when no handleJoinRoom call is suspended.
NextRoomSeq ==
    \/ \E c \in Clients : RoomHandlersDone /\ HandleJoinRoom(c)
    \/ \E c \in Clients : JoinRoomClientFailed(c)
    \/ \E c \in Clients : JoinRoomGotClient(c)
    \/ \E c \in Clients : JoinRoomInitDone(c)
    \/ \E c \in Clients : RoomHandlersDone /\ LeaveRoom(c)

SpecRoomSeq == Init /\ [][NextRoomSeq]_vars

\* The clients whose room stream and WebSocket traffic SpecBack follows.
BackClients == {"c1"}

\* The room back-stream of a client and what is sent to the client.
NextBack ==
    \/ \E c \in BackClients : HandleJoinRoom(c)
    \/ \E c \in BackClients : JoinRoomGotClient(c)
    \/ \E c \in BackClients : JoinRoomInitDone(c)
    \/ \E c \in BackClients : ClientClose(c)
    \/ \E c \in BackClients, f \in RoomFrames : OnRoomData(c, f, 1)
    \/ \E c \in BackClients : OnRoomEnd(c)
    \/ \E c \in BackClients : OnRoomError(c)
    \/ \E c \in BackClients : EmitWorldFullMessage(c)
    \/ \E c \in BackClients : HandleRoomTagsQuery(c)
    \/ \E c \in BackClients : RoomTagsQueryAnswer(c)

SpecBack == Init /\ [][NextBack]_vars

\* The clients that join and leave spaces in SpecSpace.
SpaceClients == {"c1", "c2"}

\* Spaces and the shared space back-streams.
NextSpace ==
    \/ \E c \in SpaceClients, n \in SpaceNames : HandleJoinSpace(c, n)
    \/ \E e \in DOMAIN conns : SpaceStreamCreated(e)
    \/ \E e \in DOMAIN conns : SpaceStreamRejected(e)
    \/ \E e \in DOMAIN conns : OnSpaceEnd(e)
    \/ \E c \in SpaceClients, n \in SpaceNames : HandleLeaveSpace(c, n)
    \/ \E c \in SpaceClients : LeaveSpaces(c)

SpecSpace == Init /\ [][NextSpace]_vars

\* The space SpecWatchdog follows.
WatchdogSpaces == {"s1"}

\* The heartbeat of a shared space back-stream, with one client.
NextWatchdog ==
    \/ \E n \in WatchdogSpaces : HandleJoinSpace("c1", n)
    \/ \E e \in DOMAIN conns : SpaceStreamCreated(e)
    \/ \E e \in DOMAIN conns : OnSpacePing(e)
    \/ \E e \in DOMAIN conns : OnSpacePingTimeout(e)
    \/ \E e \in DOMAIN conns : OnSpaceEnd(e)
    \/ \E e \in DOMAIN conns : OnSpaceError(e)
    \/ \E n \in WatchdogSpaces : HandleLeaveSpace("c1", n)
    \/ LeaveSpaces("c1")

SpecWatchdog == Init /\ [][NextWatchdog]_vars

\* The clients whose admin operations SpecAdmin follows: an admin and a
\* client that is not one.
AdminClients == {"c1", "c2"}

\* Bans and global messages.
NextAdmin ==
    \/ \E c \in AdminClients : HandleBanPlayerMessage(c)
    \/ \E c \in AdminClients : BanUserByUuidDone(c)
    \/ \E c \in AdminClients : EmitBanGotClient(c)
    \/ \E c \in AdminClients : BanFailed(c)
    \/ \E c \in AdminClients, msg \in PlayGlobalMessages : EmitPlayGlobalMessage(c, msg)
    \/ \E c \in AdminClients, urls \in WorldRooms : GlobalRoomsReturned(c, urls)
    \/ \E c \in AdminClients : GlobalGotClient(c)
    \/ \E c \in AdminClients : GlobalFailed(c)

SpecAdmin == Init /\ [][NextAdmin]_vars

\* The clients, the spaces and the space user updates that SpecDetails
\* follows.
DetailClients == {"c1"}
DetailSpaces == {"s1", "s2"}
UpdateMasks == {<<"availabilityStatus", "chatID">>}
UpdateUsers == {NoUser, [availabilityStatus |-> 2, chatID |-> "new"]}

\* Player details and space user updates of a client in spaces.
NextDetails ==
    \/ \E c \in DetailClients : HandleJoinRoom(c)
    \/ \E c \in DetailClients : JoinRoomGotClient(c)
    \/ \E c \in DetailClients, n \in DetailSpaces : HandleJoinSpace(c, n)
    \/ \E e \in DOMAIN conns : SpaceStreamCreated(e)
    \/ \E c \in DetailClients, msg \in Users : HandleSetPlayerDetails(c, msg)
    \/ \E c \in DetailClients, user \in UpdateUsers, mask \in UpdateMasks :
           HandleUpdateSpaceUser(c, "s1", user, mask)

SpecDetails == Init /\ [][NextDetails]_vars

\* The client that SpecEvents follows, the space it joins and leaves, and
\* the spaces its events name.
EventClients == {"c1"}
EventSpaces == {"s1"}
EventNames == {"s1", "s2"}

\* Public and private events of a client in spaces.
NextEvents ==
    \/ \E c \in EventClients : HandleJoinRoom(c)
    \/ \E c \in EventClients : JoinRoomGotClient(c)
    \/ \E c \in EventClients : OnRoomData(c, "roomJoinedMessage", 1)
    \/ \E c \in EventClients, n \in EventSpaces : HandleJoinSpace(c, n)
    \/ \E e \in DOMAIN conns : SpaceStreamCreated(e)
    \/ \E c \in EventClients, n \in EventSpaces : HandleLeaveSpace(c, n)
    \/ \E c \in EventClients, kind \in EventKinds, n \in EventNames, sender \in SenderIds :
           HandleSpaceEvent(c, kind, n, sender)

SpecEvents == Init /\ [][NextEvents]_vars

\* The space the client of SpecFilters joins, and the spaces its filter
\* messages name.
FilterSpaces == {"s1"}
FilterNames == {"s1", "s2"}

\* The filters of a client in a space.
NextFilters ==
    \/ \E n \in FilterSpaces : HandleJoinSpace("c1", n)
    \/ \E e \in DOMAIN conns : SpaceStreamCreated(e)
    \/ \E n \in FilterNames, f \in Filters : HandleAddSpaceFilterMessage("c1", n, f)
    \/ \E n \in FilterNames, f \in Filters : HandleUpdateSpaceFilterMessage("c1", n, f)
    \/ \E n \in FilterSpaces : HandleLeaveSpace("c1", n)

SpecFilters == Init /\ [][NextFilters]_vars

\* The space the client of SpecMetadata joins, and the spaces the metadata
\* frames name.
MetadataSpaces == {"s1"}
MetadataNames == {"s1", "s2"}

\* Metadata updates from the back on a shared space stream.
NextMetadata ==
    \/ \E n \in MetadataSpaces : HandleJoinSpace("c1", n)
    \/ \E e \in DOMAIN conns : SpaceStreamCreated(e)
    \/ \E e \in DOMAIN conns, n \in MetadataNames, text \in MetadataTexts :
           OnSpaceMetadata(e, n, text)
    \/ \E n \in MetadataSpaces : HandleLeaveSpace("c1", n)

SpecMetadata == Init /\ [][NextMetadata]_vars

\* The client whose room stream, viewport and moves SpecMoves follows, and
\* the clients that try to edit the map.
MoveClients == {"c1"}
EditClients == {"c1", "c2"}

\* Viewports, moves and map edits.
NextMoves ==
    \/ \E c \in MoveClients : HandleJoinRoom(c)
    \/ \E c \in MoveClients : JoinRoomGotClient(c)
    \/ \E c \in MoveClients : JoinRoomInitDone(c)
    \/ \E c \in MoveClients : OnRoomData(c, "roomJoinedMessage", 1)
    \/ \E c \in MoveClients, v \in Viewports : HandleViewport(c, v)
    \/ \E c \in MoveClients, v \in MoveViewports : HandleUserMovesMessage(c, v)
    \/ \E c \in EditClients : ForwardAdminMessageToBack(c)

SpecMoves == Init /\ [][NextMoves]_vars

\* Metadata updates sent by clients: c1 joins the space, c2 never does.
UpdateJoiners == {"c1"}
UpdateClients == {"c1", "c2"}
UpdateSpaces == {"s1"}

NextUpdateMetadata ==
    \/ \E c \in UpdateJoiners, n \in UpdateSpaces : HandleJoinSpace(c, n)
    \/ \E e \in DOMAIN conns : SpaceStreamCreated(e)
    \/ \E e \in DOMAIN conns : SpaceStreamRejected(e)
    \/ \E c \in UpdateClients, n \in UpdateSpaces, value \in MetadataUpdates :
          HandleUpdateSpaceMetadata(c, n, value)
    \/ \E c \in UpdateClients, n \in UpdateSpaces : HandleLeaveSpace(c, n)

SpecUpdateMetadata == Init /\ [][NextUpdateMetadata]_vars

\* A client that closes its socket while its joins are suspended.
TeardownClients == {"c1", "c2"}
TeardownSpaces == {"s1"}

NextTeardown ==
    \/ \E c \in TeardownClients : HandleJoinRoom(c)
    \/ \E c \in TeardownClients : JoinRoomClientFailed(c)
    \/ \E c \in TeardownClients : JoinRoomGotClient(c)
    \/ \E c \in TeardownClients : JoinRoomInitDone(c)
    \/ \E c \in TeardownClients, n \in TeardownSpaces : HandleJoinSpace(c, n)
    \/ \E e \in DOMAIN conns : SpaceStreamCreated(e)
    \/ \E e \in DOMAIN conns : SpaceStreamRejected(e)
    \/ \E c \in TeardownClients : ClientClose(c)

SpecTeardown == Init /\ [][NextTeardown]_vars

====
